---- MODULE Spec2Model ----
(***************************************************************************)
(* A model of nflbot: the polling cycle run_once of app/main.py, the       *)
(* scheduler wrapper _scheduled_job, the signal store of app/core/store.py *)
(* and the probability/edge arithmetic of app/core/ev.py and               *)
(* app/core/spreads.py.                                                    *)
(*                                                                         *)
(* Numbers.  Python floats are modelled as exact rationals [n, d] in       *)
(* lowest terms with d > 0.  Spread lines are integers counting half       *)
(* points (-2.5 is -5, +7.0 is 14), the grid on which books quote NFL      *)
(* spreads.  An optional value (Python None) is the empty sequence, a      *)
(* present value v is <<v>>.  round(x, 2) is taken of the exact value; on a *)
(* value that sits exactly on half a cent the float computation may land   *)
(* on either neighbouring cent.                                            *)
(***************************************************************************)
EXTENDS Integers, Sequences, FiniteSets, TLC

None == <<>>
Some(v) == <<v>>
Val(o) == o[1]

(***************************************************************************)
(* Exact rational arithmetic standing for float arithmetic.                *)
(***************************************************************************)
Abs(x) == IF x < 0 THEN -x ELSE x

RECURSIVE Gcd(_, _)
Gcd(a, b) == IF b = 0 THEN a ELSE Gcd(b, a % b)

R(n, d) ==
    LET g == Gcd(Abs(n), Abs(d))
        s == IF d < 0 THEN -1 ELSE 1
    IN  [n |-> (s * n) \div g, d |-> Abs(d) \div g]

RInt(i) == [n |-> i, d |-> 1]
RAdd(a, b) == R(a.n * b.d + b.n * a.d, a.d * b.d)
RSub(a, b) == R(a.n * b.d - b.n * a.d, a.d * b.d)
RMul(a, b) == R(a.n * b.n, a.d * b.d)
RDiv(a, b) == R(a.n * b.d, a.d * b.n)
RLe(a, b) == a.n * b.d <= b.n * a.d
RLt(a, b) == a.n * b.d < b.n * a.d
RMax(a, b) == IF RLt(a, b) THEN b ELSE a
RMin(a, b) == IF RLt(b, a) THEN b ELSE a
RAbs(a) == [n |-> Abs(a.n), d |-> a.d]
RZero == RInt(0)
ROne == RInt(1)

\* Python round(x) for a rational: nearest integer, ties to the even one.
RoundHalfEven(a) ==
    LET fl == a.n \div a.d
        twice == 2 * (a.n - fl * a.d)
    IN  IF twice < a.d THEN fl
        ELSE IF twice > a.d THEN fl + 1
        ELSE IF fl % 2 = 0 THEN fl ELSE fl + 1

\* round(x, 2)
Round2(a) == R(RoundHalfEven(RMul(a, RInt(100))), 100)

(***************************************************************************)
(* app/core/ev.py                                                          *)
(***************************************************************************)
payout_multiple(odds) ==
    IF odds > 0 THEN R(odds, 100) ELSE R(100, Abs(odds))

Clamp01(p) == RMax(RZero, RMin(ROne, p))

break_even_prob(odds, p_push) ==
    RDiv(RSub(ROne, Clamp01(p_push)), RAdd(payout_multiple(odds), ROne))

expected_value_per_dollar(p_win, odds, p_push) ==
    LET b == payout_multiple(odds)
        pw == Clamp01(p_win)
        pp == Clamp01(p_push)
    IN  RSub(RMul(pw, b), RSub(RSub(ROne, pw), pp))

\* a faulty variant: the Kelly fraction with q = 1 - p_win, the push left out
kelly_fraction_without_push(p_win, odds, p_push) ==
    RDiv(RSub(RMul(payout_multiple(odds), Clamp01(p_win)), RSub(ROne, Clamp01(p_win))),
         payout_multiple(odds))

kelly_fraction(p_win, odds, p_push) ==
    LET b == payout_multiple(odds)
        pw == Clamp01(p_win)
        pp == Clamp01(p_push)
        q == RSub(RSub(ROne, pw), pp)
    IN  RDiv(RSub(RMul(b, pw), q), b)

(***************************************************************************)
(* app/core/spreads.py.  A ladder is a function from favourite lines (in   *)
(* half points) to probabilities.  max_gap is optional and, when present,  *)
(* counted in half points.                                                 *)
(***************************************************************************)
SetMax(S) == CHOOSE x \in S : \A y \in S : y <= x
SetMin(S) == CHOOSE x \in S : \A y \in S : x <= y

\* a faulty variant: the interpolation between the outermost keys
p_fav_half_outer_keys(target, ladder, max_gap) ==
    LET keys == DOMAIN ladder
        below == {x \in keys : x <= target}
        above == {x \in keys : x >= target}
    IN  IF target \in keys THEN Some([p |-> ladder[target], interp |-> FALSE])
        ELSE IF below = {} \/ above = {} THEN None
        ELSE IF max_gap # None
                /\ (Abs(target - SetMax(below)) > Val(max_gap)
                    \/ Abs(SetMin(above) - target) > Val(max_gap))
        THEN None
        ELSE Some([p |-> RAdd(ladder[SetMin(below)],
                              RMul(R(target - SetMin(below), SetMax(above) - SetMin(below)),
                                   RSub(ladder[SetMax(above)], ladder[SetMin(below)]))),
                   interp |-> TRUE])

\* a faulty variant: every lookup that returns a value is flagged interpolated
p_fav_half_always_flagged(target, ladder, max_gap) ==
    LET keys == DOMAIN ladder
        below == {x \in keys : x <= target}
        above == {x \in keys : x >= target}
    IN  IF target \in keys THEN Some([p |-> ladder[target], interp |-> TRUE])
        ELSE IF below = {} \/ above = {} THEN None
        ELSE IF max_gap # None
                /\ (Abs(target - SetMax(below)) > Val(max_gap)
                    \/ Abs(SetMin(above) - target) > Val(max_gap))
        THEN None
        ELSE Some([p |-> RAdd(ladder[SetMax(below)],
                              RMul(R(target - SetMax(below), SetMin(above) - SetMax(below)),
                                   RSub(ladder[SetMin(above)], ladder[SetMax(below)]))),
                   interp |-> TRUE])

\* a faulty variant: the lookup without the max_gap check
p_fav_half_any_gap(target, ladder, max_gap) ==
    LET keys == DOMAIN ladder
        below == {x \in keys : x <= target}
        above == {x \in keys : x >= target}
    IN  IF target \in keys THEN Some([p |-> ladder[target], interp |-> FALSE])
        ELSE IF below = {} \/ above = {} THEN None
        ELSE Some([p |-> RAdd(ladder[SetMax(below)],
                              RMul(R(target - SetMax(below), SetMin(above) - SetMax(below)),
                                   RSub(ladder[SetMin(above)], ladder[SetMax(below)]))),
                   interp |-> TRUE])

\* None, or Some([p, interp])
p_fav_half(target, ladder, max_gap) ==
    LET keys == DOMAIN ladder
        below == {x \in keys : x <= target}
        above == {x \in keys : x >= target}
    IN  IF target \in keys THEN Some([p |-> ladder[target], interp |-> FALSE])
        ELSE IF keys = {} THEN None
        ELSE IF below = {} \/ above = {} THEN None
        ELSE LET lo == SetMax(below)
                 hi == SetMin(above)
             IN  IF lo = hi THEN Some([p |-> ladder[lo], interp |-> FALSE])
                 ELSE IF max_gap # None
                         /\ (Abs(target - lo) > Val(max_gap) \/ Abs(hi - target) > Val(max_gap))
                      THEN None
                 ELSE LET t == R(target - lo, hi - lo)
                      IN  Some([p |-> RAdd(ladder[lo], RMul(t, RSub(ladder[hi], ladder[lo]))),
                                interp |-> TRUE])

\* the tuple map_hr_to_probs returns, its meta dictionary flattened
Dist(p_win, p_push, p_lose, whole, interpolated) ==
    Some([p_win |-> p_win, p_push |-> p_push, p_lose |-> p_lose,
          whole |-> whole, interpolated |-> interpolated])

\* p_push = 0.0; p_lose = 1.0 - p_win
HalfPointDist(p_win, interp) == Dist(p_win, RZero, RSub(ROne, p_win), FALSE, interp)

\* the half-point branch, res being the result of the ladder lookup
HalfPointProbs(s_hr, res) ==
    IF res = None THEN None
    ELSE HalfPointDist(IF s_hr < 0 THEN Val(res).p ELSE RSub(ROne, Val(res).p),
                       Val(res).interp)

\* p_lose = 1.0 - p_win - p_push
WholePointDist(p_win, p_push, interp) ==
    Dist(p_win, p_push, RSub(RSub(ROne, p_win), p_push), TRUE, interp)

\* a faulty variant: the pairing inverted, the favourite winning with p_lo
WholePointProbsInverted(s_hr, r_lo, r_hi) ==
    IF r_lo = None \/ r_hi = None THEN None
    ELSE WholePointDist(IF s_hr < 0 THEN Val(r_lo).p ELSE RSub(ROne, Val(r_hi).p),
                        RMax(RZero, RSub(Val(r_lo).p, Val(r_hi).p)),
                        Val(r_lo).interp \/ Val(r_hi).interp)

\* a faulty variant: the push mass without max(0.0, ...)
WholePointProbsUnclamped(s_hr, r_lo, r_hi) ==
    IF r_lo = None \/ r_hi = None THEN None
    ELSE WholePointDist(IF s_hr < 0 THEN Val(r_hi).p ELSE RSub(ROne, Val(r_lo).p),
                        RSub(Val(r_lo).p, Val(r_hi).p),
                        Val(r_lo).interp \/ Val(r_hi).interp)

\* the whole-number branch, r_lo and r_hi being the lookups at -(n-0.5), -(n+0.5)
WholePointProbs(s_hr, r_lo, r_hi) ==
    IF r_lo = None \/ r_hi = None THEN None
    ELSE WholePointDist(IF s_hr < 0 THEN Val(r_hi).p ELSE RSub(ROne, Val(r_lo).p),
                        RMax(RZero, RSub(Val(r_lo).p, Val(r_hi).p)),
                        Val(r_lo).interp \/ Val(r_hi).interp)

\* None, or Some([p_win, p_push, p_lose, whole, interpolated])
map_hr_to_probs(side, s_hr, ladder, max_gap) ==
    IF s_hr % 2 # 0
    THEN HalfPointProbs(s_hr,
             p_fav_half(IF s_hr < 0 THEN s_hr ELSE -Abs(s_hr), ladder, max_gap))
    ELSE WholePointProbs(s_hr,
             p_fav_half(-(2 * (Abs(s_hr) \div 2) - 1), ladder, max_gap),
             p_fav_half(-(2 * (Abs(s_hr) \div 2) + 1), ladder, max_gap))

(***************************************************************************)
(* app/core/store.py.  The signals table is the set of its rows; the row   *)
(* id and the ts column (wall-clock second of the insert) are left out.    *)
(* The unique index signals_unique is on (game_id, market, pick, odds).    *)
(***************************************************************************)
SigKey(r) == <<r.game_id, r.market, r.pick, r.odds>>

SigRow(sig) ==
    [game_id |-> sig.game_id, market |-> sig.market, pick |-> sig.pick, odds |-> sig.odds,
     p_true |-> sig.p_true, edge |-> sig.edge, kelly |-> sig.kelly, stake |-> sig.stake,
     status |-> "NEW"]

\* a faulty variant: the unique index without the odds column
save_signal_keyed_without_odds(table, sig) ==
    IF \E r \in table : r.game_id = sig.game_id /\ r.market = sig.market /\ r.pick = sig.pick
    THEN table ELSE table \cup {SigRow(sig)}

\* INSERT OR IGNORE: the table after save_signal(sig)
save_signal(table, sig) ==
    IF \E r \in table : SigKey(r) = SigKey(sig) THEN table ELSE table \cup {SigRow(sig)}

\* the value save_signal returns: bool(cur.rowcount)
save_signal_result(table, sig) == ~(\E r \in table : SigKey(r) = SigKey(sig))

\* the table after save_signal on each element of a sequence, in order
RECURSIVE SaveAll(_, _)
SaveAll(table, sigs) ==
    IF sigs = <<>> THEN table ELSE SaveAll(save_signal(table, Head(sigs)), Tail(sigs))

(***************************************************************************)
(* app/main.py: configuration (the defaults of the environment reads).     *)
(***************************************************************************)
BANKROLL == 500
MIN_EDGE == R(1, 100)
KELLY_FRAC == R(1, 2)
MAX_UNIT == R(2, 100)
TEST_FORCE_COUNT == 3
\* MAX_INTERP_GAP = 1.0 point = 2 half points
MAX_INTERP_GAP == 2
\* alerts[:5]
MAX_ALERTS == 5
TITLE == "NFL +EV Signals on Hard Rock Bet"

clamp(x, lo, hi) == RMax(lo, RMin(hi, x))

TEAM_NAMES ==
    <<"Arizona Cardinals", "Atlanta Falcons", "Baltimore Ravens", "Buffalo Bills",
      "Carolina Panthers", "Chicago Bears", "Cincinnati Bengals", "Cleveland Browns",
      "Dallas Cowboys", "Denver Broncos", "Detroit Lions", "Green Bay Packers",
      "Houston Texans", "Indianapolis Colts", "Jacksonville Jaguars", "Kansas City Chiefs",
      "Las Vegas Raiders", "Los Angeles Chargers", "Los Angeles Rams", "Miami Dolphins",
      "Minnesota Vikings", "New England Patriots", "New Orleans Saints", "New York Giants",
      "New York Jets", "Philadelphia Eagles", "Pittsburgh Steelers", "San Francisco 49ers",
      "Seattle Seahawks", "Tampa Bay Buccaneers", "Tennessee Titans", "Washington Commanders">>

TEAM_ABBR ==
    <<"ARI", "ATL", "BAL", "BUF", "CAR", "CHI", "CIN", "CLE", "DAL", "DEN", "DET", "GB",
      "HOU", "IND", "JAX", "KC", "LV", "LAC", "LAR", "MIA", "MIN", "NE", "NO", "NYG",
      "NYJ", "PHI", "PIT", "SF", "SEA", "TB", "TEN", "WAS">>

abbr(name) ==
    IF \E i \in 1..Len(TEAM_NAMES) : TEAM_NAMES[i] = name
    THEN TEAM_ABBR[CHOOSE i \in 1..Len(TEAM_NAMES) : TEAM_NAMES[i] = name]
    ELSE name

Take(s, n) == SubSeq(s, 1, IF n < Len(s) THEN n ELSE Len(s))

\* _hr_signature: str() of the list of quote tuples after items.sort(); the
\* game ids of one feed are distinct, so the first component decides the order
SigItem(g) == <<g.game_id, g.line_home, g.line_away, g.odds_home, g.odds_away>>

RECURSIVE InsertItem(_, _)
InsertItem(s, a) ==
    IF s = <<>> THEN <<a>>
    ELSE IF a[1] < Head(s)[1] THEN <<a>> \o s
    ELSE <<Head(s)>> \o InsertItem(Tail(s), a)

RECURSIVE SortItems(_)
SortItems(s) ==
    IF s = <<>> THEN <<>>
    ELSE InsertItem(SortItems(SubSeq(s, 1, Len(s) - 1)), s[Len(s)])

hr_signature(games) == SortItems([i \in 1..Len(games) |-> SigItem(games[i])])

\* a faulty variant: the alerts are left in feed order
KeepFeedOrder(s) == s

\* alerts.sort(key=lambda a:a["edge"], reverse=True): stable, descending edge
RECURSIVE InsertByEdge(_, _)
InsertByEdge(s, a) ==
    IF s = <<>> THEN <<a>>
    ELSE IF RLt(Head(s).edge, a.edge) THEN <<a>> \o s
    ELSE <<Head(s)>> \o InsertByEdge(Tail(s), a)

RECURSIVE SortByEdgeDesc(_)
SortByEdgeDesc(s) ==
    IF s = <<>> THEN <<>>
    ELSE InsertByEdge(SortByEdgeDesc(SubSeq(s, 1, Len(s) - 1)), s[Len(s)])

\* f"{line:+.1f}" of a line on the half-point grid: sign, whole points, tenths digit
FmtLine(line) == <<IF line < 0 THEN "-" ELSE "+", Abs(line) \div 2, 5 * (Abs(line) % 2)>>

\* f"{edge*100:+.1f}": tenths of a percent, rounded
FmtEdgePct(edge) == RoundHalfEven(RMul(edge, RInt(1000)))

SideOdds(g, side) == IF side = "home" THEN g.odds_home ELSE g.odds_away
SideLine(g, side) == IF side = "home" THEN g.line_home ELSE g.line_away
\* a faulty variant: the pick names the other team
SideTeamSwapped(g, side) == IF side = "home" THEN g.away ELSE g.home

SideTeam(g, side) == IF side = "home" THEN g.home ELSE g.away

\* a faulty variant: the stake without the clamp and without max(0, k)
StakeUncapped(k) ==
    Round2(RMul(RInt(BANKROLL), RMul(KELLY_FRAC, k)))

\* stake=round(BANKROLL*clamp(KELLY_FRAC*max(0,k),0.0,MAX_UNIT),2)
StakeOf(k) ==
    Round2(RMul(RInt(BANKROLL), clamp(RMul(KELLY_FRAC, RMax(RZero, k)), RZero, MAX_UNIT)))

\* the dynamic EV threshold of run_once for a mapped side, min_edge being the
\* value of MIN_EDGE
EdgeThresholdFor(min_edge, line, whole, interpolated) ==
    LET abs_line == Abs(line)
        \* min(|abs_line-3.0|, |abs_line-7.0|) <= 0.5, in half points
        near_key == (IF Abs(abs_line - 6) < Abs(abs_line - 14)
                     THEN Abs(abs_line - 6) ELSE Abs(abs_line - 14)) <= 1
        thr0 == RMax(min_edge, R(1, 100))
        thr1 == IF whole \/ interpolated THEN RMax(thr0, R(15, 1000)) ELSE thr0
    IN  IF interpolated /\ near_key THEN RMax(thr1, R(2, 100)) ELSE thr1

EdgeThreshold(line, whole, interpolated) ==
    EdgeThresholdFor(MIN_EDGE, line, whole, interpolated)

\* the tuple appended to evals for a side mapped to m, with Kelly fraction k
EvalEntry(side, odds, line, m, k) ==
    [ev |-> expected_value_per_dollar(m.p_win, odds, m.p_push),
     side |-> side, odds |-> odds, p_win |-> m.p_win, k |-> k,
     stake |-> StakeOf(k), line |-> line, p_push |-> m.p_push,
     thr |-> EdgeThreshold(line, m.whole, m.interpolated)]

\* if mp is None: continue
EvalMapped(side, odds, line, mp) ==
    IF mp = None THEN <<>>
    ELSE <<EvalEntry(side, odds, line, Val(mp),
                     kelly_fraction(Val(mp).p_win, odds, Val(mp).p_push))>>

\* the evals entries of one game: one per side that has odds, a line and a mapping
EvalSide(g, fav_ladder, side) ==
    IF SideOdds(g, side) = None \/ SideLine(g, side) = None THEN <<>>
    ELSE IF DOMAIN fav_ladder = {} THEN <<>>
    ELSE EvalMapped(side, Val(SideOdds(g, side)), Val(SideLine(g, side)),
                    map_hr_to_probs(side, Val(SideLine(g, side)), fav_ladder,
                                    Some(MAX_INTERP_GAP)))

Evals(g, fav_ladder) == EvalSide(g, fav_ladder, "home") \o EvalSide(g, fav_ladder, "away")

\* max keeps the earlier of two entries unless the later one is greater
LaterIfGreater(best, x) == IF RLt(best.ev, x.ev) THEN x ELSE best

\* a faulty variant: the first evaluated side, whatever its ev
first_evaluated_side(evals) == evals[1]

\* max(evals, key=lambda x:x[0]): the first entry of maximal ev
RECURSIVE MaxByEv(_)
MaxByEv(evals) ==
    IF Len(evals) = 1 THEN evals[1]
    ELSE LaterIfGreater(MaxByEv(SubSeq(evals, 1, Len(evals) - 1)), evals[Len(evals)])

MakeAlert(g, e, stake) ==
    [game_id |-> g.game_id, market |-> g.market,
     pick |-> <<SideTeam(g, e.side), FmtLine(e.line)>>, odds |-> e.odds,
     p_true |-> e.p_win, p_be |-> break_even_prob(e.odds, e.p_push), p_push |-> e.p_push,
     edge |-> e.ev, kelly |-> e.k, stake |-> stake,
     event |-> <<g.away, g.home>>, start |-> g.start_utc]

\* a faulty variant: the gate without the minimum stake
PassesEdgeOnly(e) == RLe(e.thr, e.ev)

\* if ev>=thr and stake>=1.0
PassesThreshold(e) == RLe(e.thr, e.ev) /\ RLe(ROne, e.stake)

\* the alerts of one game in the main loop of run_once: none or one
AlertIfPasses(g, e) == IF PassesThreshold(e) THEN <<MakeAlert(g, e, e.stake)>> ELSE <<>>

\* if not evals: continue
AlertsOfEvals(g, evals) == IF evals = <<>> THEN <<>> ELSE AlertIfPasses(g, MaxByEv(evals))

GameAlerts(g, ref) == AlertsOfEvals(g, Evals(g, ref[g.game_id].fav_ladder))

\* the candidates of one game in forced test mode: one per evaluated side
RECURSIVE ForcedOfEvals(_, _)
ForcedOfEvals(g, evals) ==
    IF evals = <<>> THEN <<>>
    ELSE <<MakeAlert(g, Head(evals), RMax(ROne, Head(evals).stake))>>
         \o ForcedOfEvals(g, Tail(evals))

GameCandidates(g, ref) == ForcedOfEvals(g, Evals(g, ref[g.game_id].fav_ladder))

\* one text block of the notification
AlertBlock(a) ==
    [title_line |-> <<abbr(a.event[1]), abbr(a.event[2]), a.start, FmtEdgePct(a.edge)>>,
     pick_line |-> <<a.pick, a.odds>>,
     stake_line |-> RoundHalfEven(RMul(a.stake, RInt(100)))]

(***************************************************************************)
(* The environment: what the two feeds can answer.  A slate is the first   *)
(* n games of the schedule (the feed returns them in kickoff order) in     *)
(* quote variant v; the reference feed covers all of them, none of them,   *)
(* all but the first, or all of them with thin ladders.                    *)
(***************************************************************************)
NumGames == 8
NumVariants == 2

\* the schedule repeats eight kinds of game
GameKind(g) == ((g - 1) % 8) + 1

\* the quotes of game g: <<line_home, line_away, odds_home, odds_away>>; from one
\* variant to the next the book moves the home price of kind 1 by 20 cents and
\* the away price of kind 3 by one cent
Quotes(g, v) ==
    CASE GameKind(g) = 1 -> <<Some(-5), Some(5), Some(-85 - 20 * v), Some(-115)>>
      [] GameKind(g) = 2 -> <<Some(-14), Some(14), Some(-110), Some(-110)>>
      [] GameKind(g) = 3 -> <<Some(7), Some(-7), Some(-110), Some(-109 + v)>>
      [] GameKind(g) = 4 -> <<Some(-13), Some(13), Some(130), Some(100)>>
      [] GameKind(g) = 5 -> <<Some(-9), Some(9), Some(-105), Some(-115)>>
      [] GameKind(g) = 6 -> <<Some(-9), None, Some(-105), Some(-115)>>
      [] GameKind(g) = 7 -> <<Some(27), Some(-27), Some(300), Some(-400)>>
      [] OTHER -> <<Some(-6), Some(6), Some(-109), None>>

\* the moneyline prices of game g, <<ml_home, ml_away>>: the book quotes the
\* h2h market for the first two kinds of game only
MlQuotes(g) ==
    CASE GameKind(g) = 1 -> <<Some(-105), Some(105)>>
      [] GameKind(g) = 2 -> <<Some(-110), Some(120)>>
      [] OTHER -> <<None, None>>

Game(g, v) ==
    [game_id |-> g,
     home |-> TEAM_NAMES[((2 * g - 2) % Len(TEAM_NAMES)) + 1],
     away |-> TEAM_NAMES[((2 * g - 1) % Len(TEAM_NAMES)) + 1],
     start_utc |-> g, market |-> "BOTH",
     line_home |-> Quotes(g, v)[1], line_away |-> Quotes(g, v)[2],
     odds_home |-> Quotes(g, v)[3], odds_away |-> Quotes(g, v)[4],
     ml_home |-> MlQuotes(g)[1], ml_away |-> MlQuotes(g)[2]]

Slate(n, v) == [i \in 1..n |-> Game(i, v)]

FullLadder(g) ==
    CASE GameKind(g) = 1 -> (-5 :> R(53, 100))
      [] GameKind(g) = 2 -> (-15 :> R(52, 100)) @@ (-13 :> R(60, 100))
      [] GameKind(g) = 3 -> (-7 :> R(55, 100))
      [] GameKind(g) = 4 -> (-13 :> R(45, 100))
      [] GameKind(g) = 5 -> (-11 :> R(48, 100)) @@ (-7 :> R(56, 100))
      [] GameKind(g) = 6 -> (-9 :> R(52, 100))
      [] GameKind(g) = 7 -> (-27 :> R(7472, 10000))
      [] OTHER -> (-9 :> R(44, 100)) @@ (-5 :> R(56, 100))

ThinLadder(g) ==
    CASE GameKind(g) = 1 -> <<>>
      [] GameKind(g) = 2 -> (-19 :> R(48, 100)) @@ (-7 :> R(62, 100))
      [] GameKind(g) = 4 -> (-15 :> R(40, 100)) @@ (-11 :> R(52, 100))
      [] OTHER -> FullLadder(g)

\* the devigged moneyline pair of the reference entry, <<home, away>>, if the
\* reference book quotes the h2h market
RefMl(g) ==
    CASE GameKind(g) = 1 -> Some(<<R(55, 100), R(45, 100)>>)
      [] GameKind(g) = 2 -> Some(<<R(45, 100), R(55, 100)>>)
      [] OTHER -> None

RefModes == {"all", "nothing", "but_first", "thin"}

Covered(n, mode) ==
    CASE mode = "nothing" -> {}
      [] mode = "but_first" -> 2..n
      [] OTHER -> 1..n

\* what reference_probs_for(games) returns: game_id -> entry
RefFor(n, mode) ==
    [g \in Covered(n, mode) |->
        [fav_ladder |-> IF mode = "thin" THEN ThinLadder(g) ELSE FullLadder(g),
         ml |-> RefMl(g)]]

(***************************************************************************)
(* run_once                                                                *)
(***************************************************************************)
QUOTA_LINES ==
    <<"The Odds API credits are exhausted or rate-limited.",
      "Skipping this run to preserve budget.">>

Title(suffix) == <<TITLE, suffix>>

EvFetchOdds(res) == [op |-> "fetch_odds", res |-> res]
EvFetchRef(res) == [op |-> "fetch_ref", res |-> res]
EvSave(a) == [op |-> "save", sig |-> a]
EvPush(title, lines, ok) == [op |-> "push", title |-> title, lines |-> lines, ok |-> ok]

\* a faulty variant: the loop ends at the first game that yields no alert
RECURSIVE StopAtFirstSilentGame(_, _)
StopAtFirstSilentGame(games, ref) ==
    IF games = <<>> THEN <<>>
    ELSE IF GameAlerts(Head(games), ref) = <<>> THEN <<>>
    ELSE GameAlerts(Head(games), ref) \o StopAtFirstSilentGame(Tail(games), ref)

RECURSIVE ConcatGameAlerts(_, _)
ConcatGameAlerts(games, ref) ==
    IF games = <<>> THEN <<>>
    ELSE GameAlerts(Head(games), ref) \o ConcatGameAlerts(Tail(games), ref)

RECURSIVE ConcatCandidates(_, _)
ConcatCandidates(games, ref) ==
    IF games = <<>> THEN <<>>
    ELSE GameCandidates(Head(games), ref) \o ConcatCandidates(Tail(games), ref)

\* games = [g for g in games if g["game_id"] in ref]
RECURSIVE MatchedGames(_, _)
MatchedGames(games, ref) ==
    IF games = <<>> THEN <<>>
    ELSE (IF Head(games).game_id \in DOMAIN ref THEN <<Head(games)>> ELSE <<>>)
         \o MatchedGames(Tail(games), ref)

\* the save_signal calls of the dispatch loop (their results are dropped)
SaveEvents(sigs) == [i \in 1..Len(sigs) |-> EvSave(sigs[i])]

\* The record of one run_once call.  feed names the answers of the two
\* collaborators (a key of Answered) when the odds fetch succeeded.
NoFeed == <<0, 1, "none">>

NoCycle ==
    [ran |-> FALSE, odds_res |-> "none", ref_res |-> "none", feed |-> NoFeed,
     alerts |-> <<>>, forced |-> FALSE, trace |-> <<>>, raised |-> FALSE]

\* a faulty variant: the cycle returns without telling anyone
AbortSilently(c, suffix, lines, push_ok) == c

\* A cycle that ends with one push and returns (or dies in that push).
AbortCycle(c, suffix, lines, push_ok) ==
    [c EXCEPT !.trace = c.trace \o <<EvPush(Title(suffix), lines, push_ok)>>,
              !.raised = ~push_ok]

\* a faulty variant: the quota error handled like any other exception
QuotaAsError(c, push_ok) ==
    AbortCycle(c, " - Error", <<"Failed to fetch Hard Rock NFL spreads; aborting.">>, push_ok)

\* the except OddsApiQuotaError branches of the two fetches
QuotaAbort(c, push_ok) == AbortCycle(c, " - Quota", QUOTA_LINES, push_ok)

\* a faulty variant: a cycle without matched games ends silently
NoMatchSilent(c, push_ok) == c

\* if not games: no game is left after the filter on the reference mapping
NoMatchCycle(c, push_ok) ==
    AbortCycle(c, " - Error", <<"No Pinnacle odds found for upcoming games; aborting.">>,
               push_ok)

\* a faulty variant: the "no opportunities" notice is sent in every mode
NoAlertAlwaysNotifies(c, flags, push_ok) ==
    AbortCycle(c, "", <<"No +EV opportunities found above threshold.">>, push_ok)

\* if not alerts: the notice of TEST_NOTIFY or of RUN_ONCE, or nothing
NoAlertCycle(c, flags, push_ok) ==
    IF flags.TEST_NOTIFY
    THEN AbortCycle(c, " - Test", <<"No +EV opportunities found above threshold.">>, push_ok)
    ELSE IF flags.RUN_ONCE
    THEN AbortCycle(c, "", <<"No +EV opportunities found above threshold.">>, push_ok)
    ELSE c

Blocks(top) == [i \in 1..Len(top) |-> AlertBlock(top[i])]

\* alerts.sort(...) and the cut alerts[:5] of the dispatch loop
Dispatched(alerts) == Take(SortByEdgeDesc(alerts), MAX_ALERTS)

EvalAlerts(matched, genuine, forced_alerts) ==
    [matched |-> matched, genuine |-> genuine, forced_alerts |-> forced_alerts,
     top |-> Dispatched(genuine), blocks |-> Blocks(Dispatched(genuine)),
     forced_top |-> Dispatched(forced_alerts),
     forced_blocks |-> Blocks(Dispatched(forced_alerts))]

\* candidates.sort(...); alerts = candidates[:max(0, TEST_FORCE_COUNT)]
ForcedAlerts(candidates) ==
    Take(SortByEdgeDesc(candidates), IF TEST_FORCE_COUNT > 0 THEN TEST_FORCE_COUNT ELSE 0)

EvalMatched(matched, ref) ==
    EvalAlerts(matched, ConcatGameAlerts(matched, ref),
               ForcedAlerts(ConcatCandidates(matched, ref)))

\* What lines 81-316 of run_once compute from the two fetched values alone:
\* the matched games, the alerts of the main loop and of forced test mode,
\* each sorted and cut to the dispatched ones, and their text blocks.
PureEval(games, ref) == EvalMatched(MatchedGames(games, ref), ref)

\* a faulty variant: forced alerts are saved like genuine ones
EvaluateSavesForced(c, e, flags, table, push_ok) ==
    IF e.matched = <<>>
    THEN [cyc |-> NoMatchCycle(c, push_ok), signals |-> table]
    ELSE IF e.genuine # <<>>
    THEN [cyc |-> [c EXCEPT !.alerts = e.top,
                     !.trace = c.trace \o SaveEvents(e.top)
                               \o <<EvPush(Title(""), e.blocks, push_ok)>>,
                     !.raised = ~push_ok],
          signals |-> SaveAll(table, e.top)]
    ELSE IF ~flags.TEST_FORCE_OPPS \/ e.forced_alerts = <<>>
    THEN [cyc |-> NoAlertCycle([c EXCEPT !.forced = flags.TEST_FORCE_OPPS], flags, push_ok),
          signals |-> table]
    ELSE [cyc |-> [c EXCEPT !.forced = TRUE, !.alerts = e.forced_top,
                     !.trace = c.trace \o SaveEvents(e.forced_top)
                               \o <<EvPush(Title(" - Test"), e.forced_blocks, push_ok)>>,
                     !.raised = ~push_ok],
          signals |-> SaveAll(table, e.forced_top)]

\* a faulty variant: only the alerts whose row is new are notified
EvaluateNotifiesNew(c, e, flags, table, push_ok) ==
    IF e.genuine = <<>> THEN [cyc |-> c, signals |-> table]
    ELSE [cyc |-> [c EXCEPT !.alerts = e.top,
                     !.trace = c.trace \o SaveEvents(e.top)
                               \o <<EvPush(Title(""),
                                           Blocks(SelectSeq(e.top,
                                                            LAMBDA a : save_signal_result(table, a))),
                                           push_ok)>>,
                     !.raised = ~push_ok],
          signals |-> SaveAll(table, e.top)]

\* a faulty variant: the notification goes out before the rows are saved
EvaluateNotifyFirst(c, e, flags, table, push_ok) ==
    IF e.genuine = <<>> THEN [cyc |-> c, signals |-> table]
    ELSE [cyc |-> [c EXCEPT !.alerts = e.top,
                     !.trace = c.trace \o <<EvPush(Title(""), e.blocks, push_ok)>>
                               \o SaveEvents(e.top),
                     !.raised = ~push_ok],
          signals |-> SaveAll(table, e.top)]

\* The part of run_once after both fetches have succeeded (lines 81-316),
\* e being PureEval of the fetched games and reference.
Evaluate(c, e, flags, table, push_ok) ==
    LET forced == e.genuine = <<>> /\ flags.TEST_FORCE_OPPS
        alerts == IF forced THEN e.forced_alerts ELSE e.genuine
        top == IF forced THEN e.forced_top ELSE e.top
        blocks == IF forced THEN e.forced_blocks ELSE e.blocks
        c3 == [c EXCEPT !.forced = forced]
    IN  IF e.matched = <<>>
        THEN [cyc |-> NoMatchCycle(c, push_ok), signals |-> table]
        ELSE IF alerts = <<>>
        THEN [cyc |-> NoAlertCycle(c3, flags, push_ok), signals |-> table]
        ELSE [cyc |-> [c3 EXCEPT !.alerts = top,
                         !.trace = c.trace
                                   \o (IF forced THEN <<>> ELSE SaveEvents(top))
                                   \o <<EvPush(Title(IF forced THEN " - Test" ELSE ""),
                                               blocks, push_ok)>>,
                         !.raised = ~push_ok],
              signals |-> IF forced THEN table ELSE SaveAll(table, top)]

(***************************************************************************)
(* Malformed upstream values.  The book's JSON may carry a price or a      *)
(* point that is not a number; such a value is written NotANumber, an      *)
(* integer no book quotes.  _to_int turns a price that int() rejects into  *)
(* None; a point is passed on as it comes.                                 *)
(***************************************************************************)
NotANumber == 1000000

\* _to_int: int(x), None when x is None or int(x) raises
to_int(x) == IF x = None THEN None ELSE IF Val(x) = NotANumber THEN None ELSE x

Defects == {"price_text", "price_zero", "point_text"}

\* the record the adapter builds when the home outcome of g carries the defect
Malformed(g, defect) ==
    CASE defect = "price_text" -> [g EXCEPT !.odds_home = to_int(Some(NotANumber))]
      [] defect = "price_zero" -> [g EXCEPT !.odds_home = to_int(Some(0))]
      [] OTHER -> [g EXCEPT !.line_home = Some(NotANumber)]

\* the slate with the defect in its game number pos
BadSlate(n, v, pos, defect) == [Slate(n, v) EXCEPT ![pos] = Malformed(@, defect)]

\* float(line) raises ValueError
FloatRaises(line) == line # None /\ Val(line) = NotANumber

\* payout_multiple(0) divides by abs(0): ZeroDivisionError
ZeroOddsRaise(odds) == odds = Some(0)

\* what the logging loop of run_once does to one side before any alert is
\* built: float(line) whenever the line is present, and
\* expected_value_per_dollar when the side has odds, a line and a mapping
SideRaises(g, fav_ladder, side) ==
    \/ FloatRaises(SideLine(g, side))
    \/ /\ ZeroOddsRaise(SideOdds(g, side))
       /\ SideLine(g, side) # None
       /\ DOMAIN fav_ladder # {}
       /\ map_hr_to_probs(side, Val(SideLine(g, side)), fav_ladder,
                          Some(MAX_INTERP_GAP)) # None

GameRaises(g, fav_ladder) ==
    SideRaises(g, fav_ladder, "home") \/ SideRaises(g, fav_ladder, "away")

\* an exception leaves the loop over the matched games
CycleRaises(matched, ref) ==
    \E i \in DOMAIN matched : GameRaises(matched[i], ref[matched[i].game_id].fav_ladder)

\* The answers of the two collaborators in one cycle: games is the result of
\* fetch_hr_nfl_moneylines, ref that of reference_probs_for (<<>> when the
\* fetch failed); sig and eval are _hr_signature(games) and PureEval(games, ref),
\* worked out once for each answer; raises tells whether the evaluation of
\* these answers ends in an exception (eval is then never reached).
AnswerOf(games, ref, raises) ==
    [games |-> games, ref |-> ref, sig |-> hr_signature(games), raises |-> raises,
     eval |-> IF raises THEN EvalAlerts(<<>>, <<>>, <<>>) ELSE PureEval(games, ref)]

RefAnswer(n, mode) == IF mode = "none" THEN <<>> ELSE RefFor(n, mode)

OkAnswer(n, v, mode) ==
    AnswerOf(Slate(n, v), RefAnswer(n, mode),
             CycleRaises(MatchedGames(Slate(n, v), RefAnswer(n, mode)), RefAnswer(n, mode)))

\* the answers when game pos of the slate is malformed
BadAnswer(n, v, mode, pos, defect) ==
    AnswerOf(BadSlate(n, v, pos, defect), RefFor(n, mode),
             CycleRaises(MatchedGames(BadSlate(n, v, pos, defect), RefFor(n, mode)),
                         RefFor(n, mode)))

SlateSizes == {0, 1, NumGames}

FeedKeys == SlateSizes \X (1..NumVariants) \X (RefModes \cup {"none"})

\* a malformed game is the first or the second of the slate
BadFeedKeys ==
    {k \in {1, NumGames} \X (1..NumVariants) \X {"all", "but_first", "thin"}
            \X {1, 2} \X Defects : k[4] <= k[1]}

Answered ==
    [k \in FeedKeys |-> OkAnswer(k[1], k[2], k[3])]
    @@ [k \in BadFeedKeys |-> BadAnswer(k[1], k[2], k[3], k[4], k[5])]

\* an exception leaves run_once
EvRaise == [op |-> "raise"]

\* the cycle ends in an exception raised by the evaluation
RaiseInCycle(c) == [c EXCEPT !.trace = c.trace \o <<EvRaise>>, !.raised = TRUE]

\* the outcome r of the evaluation together with the two globals
WithGlobals(sig, skip, r) ==
    [LAST_SIG |-> sig, SKIP_NEXT |-> skip, signals |-> r.signals, cyc |-> r.cyc]

\* a faulty variant: the signature is recorded only once both fetches succeeded
run_once_sig_after_ref(flags, last_sig, skip_next, table, odds_res, ref_res, feed, answer, push_ok) ==
    LET c0 == [NoCycle EXCEPT !.ran = TRUE, !.odds_res = odds_res,
                              !.trace = <<EvFetchOdds(odds_res)>>]
        c1 == [c0 EXCEPT !.feed = feed, !.ref_res = ref_res,
                         !.trace = c0.trace \o <<EvFetchRef(ref_res)>>]
    IN  IF odds_res = "quota"
        THEN [LAST_SIG |-> last_sig, SKIP_NEXT |-> skip_next, signals |-> table,
              cyc |-> QuotaAbort(c0, push_ok)]
        ELSE IF odds_res = "error"
        THEN [LAST_SIG |-> last_sig, SKIP_NEXT |-> skip_next, signals |-> table,
              cyc |-> AbortCycle(c0, " - Error",
                          <<"Failed to fetch Hard Rock NFL spreads; aborting.">>, push_ok)]
        ELSE IF ref_res = "quota"
        THEN [LAST_SIG |-> last_sig, SKIP_NEXT |-> skip_next, signals |-> table,
              cyc |-> QuotaAbort(c1, push_ok)]
        ELSE IF ref_res = "error"
        THEN [LAST_SIG |-> last_sig, SKIP_NEXT |-> skip_next, signals |-> table,
              cyc |-> AbortCycle(c1, " - Error",
                          <<"Failed to fetch Pinnacle reference probabilities; aborting.">>,
                          push_ok)]
        ELSE IF answer.raises
        THEN [LAST_SIG |-> Some(answer.sig),
              SKIP_NEXT |-> (skip_next \/ Some(answer.sig) = last_sig),
              signals |-> table, cyc |-> RaiseInCycle(c1)]
        ELSE WithGlobals(Some(answer.sig), skip_next \/ Some(answer.sig) = last_sig,
                         Evaluate(c1, answer.eval, flags, table, push_ok))

\* run_once as a function of the state it reads and of what the collaborators
\* answer (answer is the entry of Answered under the key feed): the new globals,
\* the new table and the record of the cycle.
run_once(flags, last_sig, skip_next, table, odds_res, ref_res, feed, answer, push_ok) ==
    LET c0 == [NoCycle EXCEPT !.ran = TRUE, !.odds_res = odds_res,
                              !.trace = <<EvFetchOdds(odds_res)>>]
    IN  IF odds_res = "quota"
        THEN [LAST_SIG |-> last_sig, SKIP_NEXT |-> skip_next, signals |-> table,
              cyc |-> QuotaAbort(c0, push_ok)]
        ELSE IF odds_res = "error"
        THEN [LAST_SIG |-> last_sig, SKIP_NEXT |-> skip_next, signals |-> table,
              cyc |-> AbortCycle(c0, " - Error",
                          <<"Failed to fetch Hard Rock NFL spreads; aborting.">>, push_ok)]
        ELSE
        LET sig == answer.sig
            same == last_sig # None /\ Some(sig) = last_sig
            skip1 == IF same THEN TRUE ELSE skip_next
            c1 == [c0 EXCEPT !.feed = feed, !.ref_res = ref_res,
                             !.trace = c0.trace \o <<EvFetchRef(ref_res)>>]
        IN  IF ref_res = "quota"
            THEN [LAST_SIG |-> Some(sig), SKIP_NEXT |-> skip1, signals |-> table,
                  cyc |-> QuotaAbort(c1, push_ok)]
            ELSE IF ref_res = "error"
            THEN [LAST_SIG |-> Some(sig), SKIP_NEXT |-> skip1, signals |-> table,
                  cyc |-> AbortCycle(c1, " - Error",
                              <<"Failed to fetch Pinnacle reference probabilities; aborting.">>,
                              push_ok)]
            ELSE IF answer.raises
            THEN [LAST_SIG |-> Some(sig), SKIP_NEXT |-> skip1, signals |-> table,
                  cyc |-> RaiseInCycle(c1)]
            ELSE WithGlobals(Some(sig), skip1,
                             Evaluate(c1, answer.eval, flags, table, push_ok))

(***************************************************************************)
(* State.                                                                  *)
(*   env        the environment flags read by main.py                      *)
(*   pc         where the process is: "start", "loop" (schedule.run_pending *)
(*              forever), "exit" (RUN_ONCE done), "crashed" (an exception  *)
(*              left run_once)                                             *)
(*   LAST_SIG   the global _LAST_SIG                                       *)
(*   SKIP_NEXT  the global _SKIP_NEXT                                      *)
(*   signals    the signals table                                          *)
(*   cyc        what the latest scheduler event ran: the record of its     *)
(*              run_once call, or NoCycle when the tick was skipped        *)
(*   seen       the signature that the latest poll with a successful odds  *)
(*              fetch observed (None before the first one)                 *)
(*   sched      the latest scheduler event: "first", "poll" or "skip";     *)
(*              same: that event was a poll which observed the signature   *)
(*              of the poll before it; prev_same: the event before it was  *)
(*              such a poll                                                *)
(*   month      the calendar month of the wall clock                       *)
(*   qhist      the month of this cycle and the month of the latest        *)
(*              earlier cycle that sent the Quota notification (0: none)   *)
(*   calc       a call of one of the pure functions on its own: the        *)
(*              function, its arguments and, once applied, its result      *)
(***************************************************************************)
VARIABLES env, pc, LAST_SIG, SKIP_NEXT, signals, cyc, seen, sched, month, qhist, calc

vars == <<env, pc, LAST_SIG, SKIP_NEXT, signals, cyc, seen, sched, month, qhist, calc>>

\* no function is being looked at on its own
NoCalc == [fn |-> "none"]

MaxMonth == 2

\* the environment with nothing set
DefaultConfig ==
    [TEST_FORCE_OPPS |-> FALSE, TEST_NOTIFY |-> FALSE, RUN_ONCE |-> FALSE,
     USE_OPT_SCHEDULE |-> TRUE]

\* the default, the default with one variable set, and the one-shot test run
\* (RUN_ONCE together with TEST_FORCE_OPPS)
Configs ==
    {DefaultConfig,
     [DefaultConfig EXCEPT !.TEST_FORCE_OPPS = TRUE],
     [DefaultConfig EXCEPT !.TEST_NOTIFY = TRUE],
     [DefaultConfig EXCEPT !.RUN_ONCE = TRUE],
     [DefaultConfig EXCEPT !.USE_OPT_SCHEDULE = FALSE],
     [DefaultConfig EXCEPT !.RUN_ONCE = TRUE, !.TEST_FORCE_OPPS = TRUE]}

InitCore ==
    /\ pc = "start"
    /\ LAST_SIG = None
    /\ SKIP_NEXT = FALSE
    /\ signals = {}
    /\ cyc = NoCycle
    /\ seen = None
    /\ sched = [last |-> "none", same |-> FALSE, prev_same |-> FALSE]
    /\ month = 1
    /\ qhist = [now |-> 0, prev |-> 0]

Init == env \in Configs /\ InitCore /\ calc = NoCalc

\* what the two fetches can answer in one cycle: <<odds_res, ref_res, answer key>>
Outcomes ==
    {<<"quota", "none", NoFeed>>, <<"error", "none", NoFeed>>}
    \cup {<<"ok", r, <<n, v, "none">> >> :
             r \in {"quota", "error"}, n \in SlateSizes, v \in 1..NumVariants}
    \cup {<<"ok", "ok", <<n, v, m>> >> :
             n \in SlateSizes, v \in 1..NumVariants, m \in RefModes}

\* the state after a call of run_once with outcome r, made as scheduler event
\* kind; observed is the signature the call computed, if it came that far
AfterRunOnce(kind, next_pc, observed, r) ==
    /\ LAST_SIG' = r.LAST_SIG
    /\ SKIP_NEXT' = r.SKIP_NEXT
    /\ signals' = r.signals
    /\ cyc' = r.cyc
    /\ pc' = IF r.cyc.raised THEN "crashed" ELSE next_pc
    /\ seen' = IF observed # None THEN observed ELSE seen
    /\ sched' = [last |-> kind, same |-> observed # None /\ observed = seen,
                 prev_same |-> sched.same]
    /\ UNCHANGED env

\* one call of run_once with outcome o of the fetches and their answer
CallWith(kind, next_pc, o, answer, push_ok) ==
    AfterRunOnce(kind, next_pc,
                 IF o[1] = "ok" THEN Some(answer.sig) ELSE None,
                 run_once(env, LAST_SIG, SKIP_NEXT, signals, o[1], o[2], o[3], answer,
                          push_ok))

\* one call of run_once with whatever the collaborators answer
CallRunOnce(kind, next_pc) ==
    \E o \in Outcomes, push_ok \in BOOLEAN :
        CallWith(kind, next_pc, o, Answered[o[3]], push_ok)

\* __main__ with RUN_ONCE set: run_once() and exit
MainRunOnce ==
    /\ pc = "start"
    /\ env.RUN_ONCE
    /\ CallRunOnce("first", "exit")

\* __main__ without RUN_ONCE: schedule_jobs() installs the jobs and runs once
ScheduleJobs ==
    /\ pc = "start"
    /\ ~env.RUN_ONCE
    /\ CallRunOnce("first", "loop")

\* a faulty variant: the banked tick returns without clearing the flag
SkipTickKeepsFlag ==
    /\ pc = "loop"
    /\ env.USE_OPT_SCHEDULE
    /\ SKIP_NEXT
    /\ SKIP_NEXT' = SKIP_NEXT
    /\ cyc' = NoCycle
    /\ sched' = [last |-> "skip", same |-> FALSE, prev_same |-> sched.same]
    /\ UNCHANGED <<env, pc, LAST_SIG, signals, seen>>

\* a job of the optimized schedule fires: _scheduled_job, banked tick
SkipTick ==
    /\ pc = "loop"
    /\ env.USE_OPT_SCHEDULE
    /\ SKIP_NEXT
    /\ SKIP_NEXT' = FALSE
    /\ cyc' = NoCycle
    /\ sched' = [last |-> "skip", same |-> FALSE, prev_same |-> sched.same]
    /\ UNCHANGED <<env, pc, LAST_SIG, signals, seen>>

\* a job of the optimized schedule fires: _scheduled_job, polling tick
PollTick ==
    /\ pc = "loop"
    /\ env.USE_OPT_SCHEDULE
    /\ ~SKIP_NEXT
    /\ CallRunOnce("poll", "loop")

\* a job of the plain schedule (USE_OPT_SCHEDULE off) fires: run_once directly
PlainTick ==
    /\ pc = "loop"
    /\ ~env.USE_OPT_SCHEDULE
    /\ CallRunOnce("poll", "loop")

\* the process as such: the wall clock is out of sight
Next ==
    \/ MainRunOnce /\ UNCHANGED <<month, qhist, calc>>
    \/ ScheduleJobs /\ UNCHANGED <<month, qhist, calc>>
    \/ SkipTick /\ UNCHANGED <<month, qhist, calc>>
    \/ PollTick /\ UNCHANGED <<month, qhist, calc>>
    \/ PlainTick /\ UNCHANGED <<month, qhist, calc>>

Spec == Init /\ [][Next]_vars

\* the process under the default environment (optimized schedule) with its
\* scheduler alive: __main__ runs schedule_jobs and its first cycle, and
\* `while True: schedule.run_pending()` keeps firing whatever job is due
NextLive ==
    \/ ScheduleJobs /\ UNCHANGED <<month, qhist, calc>>
    \/ SkipTick /\ UNCHANGED <<month, qhist, calc>>
    \/ PollTick /\ UNCHANGED <<month, qhist, calc>>

InitLive == env = DefaultConfig /\ InitCore /\ calc = NoCalc

SpecLive == InitLive /\ [][NextLive]_vars /\ WF_vars(NextLive)

(***************************************************************************)
(* The same process under the default environment with the wall clock      *)
(* made visible: a cycle happens within a month, and between two scheduler *)
(* events the month may change.  run_once never reads the date.            *)
(***************************************************************************)
SentQuotaNotice(c) ==
    \E i \in DOMAIN c.trace :
        c.trace[i].op = "push" /\ c.trace[i].title = Title(" - Quota")

\* a scheduler event happens within the current month
Stamp ==
    /\ month' = month
    /\ qhist' = [now |-> month,
                 prev |-> IF SentQuotaNotice(cyc) THEN qhist.now ELSE qhist.prev]
    /\ UNCHANGED calc

AdvanceMonth ==
    /\ month < MaxMonth
    /\ month' = month + 1
    /\ UNCHANGED <<env, pc, LAST_SIG, SKIP_NEXT, signals, cyc, seen, sched, qhist, calc>>

\* the scheduler events of the default environment, and the passing of time
NextQuota ==
    \/ ScheduleJobs /\ Stamp
    \/ SkipTick /\ Stamp
    \/ PollTick /\ Stamp
    \/ AdvanceMonth

InitQuota == env = DefaultConfig /\ InitCore /\ calc = NoCalc

SpecQuota == InitQuota /\ [][NextQuota]_vars

(***************************************************************************)
(* The same process under the default environment when the book's feed may *)
(* carry one malformed game.                                               *)
(***************************************************************************)
BadOutcomes == {<<"ok", "ok", k>> : k \in BadFeedKeys}

\* one call of run_once on a feed with a malformed game
CallRunOnceMalformed(kind, next_pc) ==
    \E o \in BadOutcomes, push_ok \in BOOLEAN :
        CallWith(kind, next_pc, o, Answered[o[3]], push_ok)

\* schedule_jobs and its first run, on any feed
ScheduleJobsFeed ==
    /\ pc = "start"
    /\ ~env.RUN_ONCE
    /\ (CallRunOnce("first", "loop") \/ CallRunOnceMalformed("first", "loop"))

\* _scheduled_job, polling tick, on any feed
PollTickFeed ==
    /\ pc = "loop"
    /\ env.USE_OPT_SCHEDULE
    /\ ~SKIP_NEXT
    /\ (CallRunOnce("poll", "loop") \/ CallRunOnceMalformed("poll", "loop"))

NextFeed ==
    \/ ScheduleJobsFeed /\ UNCHANGED <<month, qhist, calc>>
    \/ SkipTick /\ UNCHANGED <<month, qhist, calc>>
    \/ PollTickFeed /\ UNCHANGED <<month, qhist, calc>>

InitFeed == env = DefaultConfig /\ InitCore /\ calc = NoCalc

SpecFeed == InitFeed /\ [][NextFeed]_vars

(***************************************************************************)
(* The pure functions on their own: a call is drawn from a bounded set of  *)
(* arguments and applied.  Lines and ladder keys are in half points.       *)
(***************************************************************************)
MaxHalf == 5
MaxSpread == 16

ProbGrid == {RZero, R(3, 10), R(1, 2), ROne}

\* the favourite ladders with at most three entries on the keys -MaxHalf..-1
Ladders ==
    UNION {[K -> ProbGrid] : K \in {S \in SUBSET ((-MaxHalf)..(-1)) : Cardinality(S) <= 3}}

\* the ladder of the tests of spreads.py: {-7.5: 0.52, -6.5: 0.60}
TestLadder == (-15 :> R(52, 100)) @@ (-13 :> R(60, 100))

MapCalls ==
    {[fn |-> "map_hr_to_probs", side |-> sd, s_hr |-> l, ladder |-> ld, max_gap |-> g,
      done |-> FALSE, out |-> None] :
        sd \in {"home", "away"}, l \in (-(MaxHalf + 1))..(MaxHalf + 1), ld \in Ladders,
        g \in {None, Some(1), Some(MAX_INTERP_GAP)}}
    \cup {[fn |-> "map_hr_to_probs", side |-> IF l < 0 THEN "home" ELSE "away", s_hr |-> l,
           ladder |-> TestLadder, max_gap |-> Some(2), done |-> FALSE, out |-> None] :
              l \in {-14, 14}}

\* the lookups of a favourite line, keys and others, within and past the ladder,
\* and the lookups of the tests
LookupCalls ==
    {[fn |-> "p_fav_half", target |-> t, ladder |-> ld, max_gap |-> g,
      done |-> FALSE, out |-> None] :
        t \in (-(MaxHalf + 1))..0, ld \in Ladders,
        g \in {None, Some(1), Some(MAX_INTERP_GAP)}}
    \cup {[fn |-> "p_fav_half", target |-> t, ladder |-> TestLadder, max_gap |-> Some(2),
           done |-> FALSE, out |-> None] : t \in {-15, -14}}

\* the threshold of a side at a line: whole is what map_hr_to_probs says of the line
ThresholdCalls ==
    {[fn |-> "threshold", min_edge |-> f, line |-> l, whole |-> l % 2 = 0,
      interpolated |-> i, done |-> FALSE, out |-> None] :
        f \in {MIN_EDGE, R(15, 1000), R(3, 100)}, l \in (-MaxSpread)..MaxSpread,
        i \in BOOLEAN}

\* the evaluation of a mapped side: a distribution, the odds and the line
EvalCalls ==
    {[fn |-> "evaluate", side |-> "home", odds |-> o, line |-> l,
      m |-> Val(IF l % 2 = 0 THEN WholePointDist(pq[1], pq[2], i) ELSE HalfPointDist(pq[1], i)),
      done |-> FALSE, out |-> None] :
        o \in {-400, -110, 100, 150}, l \in {-12, -6, -5, 5},
        pq \in {x \in (ProbGrid \cup {R(5145, 10000), R(5155, 10000)}) \X {RZero, R(1, 10)} :
                   RLe(RAdd(x[1], x[2]), ROne)},
        i \in BOOLEAN}

\* the probabilities and odds the functions of ev.py are called with: the grid,
\* the values of the tests of ev.py and break-even points with and without push
EvProbs == ProbGrid \cup {R(1, 10), R(45, 100), R(6, 10)}
EvOdds == {-400, -150, -110, 100, 150, 200}

EvCalls ==
    {[fn |-> "ev", p_win |-> pw, odds |-> o, p_push |-> pp, done |-> FALSE, out |-> None] :
        pw \in EvProbs, o \in EvOdds, pp \in EvProbs}

ApplyMap ==
    /\ calc.fn = "map_hr_to_probs" /\ ~calc.done
    /\ calc' = [calc EXCEPT !.done = TRUE,
                            !.out = map_hr_to_probs(calc.side, calc.s_hr, calc.ladder,
                                                    calc.max_gap)]

ApplyLookup ==
    /\ calc.fn = "p_fav_half" /\ ~calc.done
    /\ calc' = [calc EXCEPT !.done = TRUE,
                            !.out = p_fav_half(calc.target, calc.ladder, calc.max_gap)]

ApplyThreshold ==
    /\ calc.fn = "threshold" /\ ~calc.done
    /\ calc' = [calc EXCEPT !.done = TRUE,
                            !.out = EdgeThresholdFor(calc.min_edge, calc.line, calc.whole,
                                                     calc.interpolated)]

\* the four functions of ev.py on the same arguments
ApplyEv ==
    /\ calc.fn = "ev" /\ ~calc.done
    /\ calc' = [calc EXCEPT !.done = TRUE,
                            !.out = [b |-> payout_multiple(calc.odds),
                                     p_be |-> break_even_prob(calc.odds, calc.p_push),
                                     ev |-> expected_value_per_dollar(calc.p_win, calc.odds,
                                                                      calc.p_push),
                                     k |-> kelly_fraction(calc.p_win, calc.odds,
                                                          calc.p_push)]]

\* one side of the loop body of run_once from the mapping on, and the gate
ApplyEvaluate ==
    /\ calc.fn = "evaluate" /\ ~calc.done
    /\ calc' = [calc EXCEPT !.done = TRUE,
                            !.out = EvalMapped(calc.side, calc.odds, calc.line, Some(calc.m))]

NextMath ==
    \/ ApplyMap /\ UNCHANGED <<env, pc, LAST_SIG, SKIP_NEXT, signals, cyc, seen, sched, month, qhist>>
    \/ ApplyLookup /\ UNCHANGED <<env, pc, LAST_SIG, SKIP_NEXT, signals, cyc, seen, sched, month, qhist>>
    \/ ApplyThreshold /\ UNCHANGED <<env, pc, LAST_SIG, SKIP_NEXT, signals, cyc, seen, sched, month, qhist>>
    \/ ApplyEvaluate /\ UNCHANGED <<env, pc, LAST_SIG, SKIP_NEXT, signals, cyc, seen, sched, month, qhist>>
    \/ ApplyEv /\ UNCHANGED <<env, pc, LAST_SIG, SKIP_NEXT, signals, cyc, seen, sched, month, qhist>>

InitMath ==
    /\ env = DefaultConfig
    /\ InitCore
    /\ (calc \in MapCalls \/ calc \in LookupCalls \/ calc \in ThresholdCalls
        \/ calc \in EvalCalls \/ calc \in EvCalls)

SpecMath == InitMath /\ [][NextMath]_vars

(***************************************************************************)
(* Observations of the latest cycle.                                       *)
(***************************************************************************)
Range(s) == {s[i] : i \in DOMAIN s}

Pushes(c) == SelectSeq(c.trace, LAMBDA e : e.op = "push")
Saves(c) == SelectSeq(c.trace, LAMBDA e : e.op = "save")
SavedSigs(c) == [i \in 1..Len(Saves(c)) |-> Saves(c)[i].sig]

QuotaFailed(c) == c.odds_res = "quota" \/ c.ref_res = "quota"
ErrorFailed(c) == c.odds_res = "error" \/ c.ref_res = "error"
FetchFailed(c) == QuotaFailed(c) \/ ErrorFailed(c)
\* both fetches of the cycle succeeded
Completed(c) == c.ran /\ c.odds_res = "ok" /\ c.ref_res = "ok"

CycleGames(c) == Answered[c.feed].games
CycleRef(c) == Answered[c.feed].ref
\* the games of the cycle that have a reference entry
CycleMatched(c) == {g \in Range(CycleGames(c)) : g.game_id \in DOMAIN CycleRef(c)}
\* the alerts of the main loop before sorting and cutting
CycleQualifying(c) == Answered[c.feed].eval.genuine
GameOf(c, id) == CHOOSE g \in Range(CycleGames(c)) : g.game_id = id
\* the evaluated sides of the game an alert is about
SideEvals(c, a) == Evals(GameOf(c, a.game_id), CycleRef(c)[a.game_id].fav_ladder)
\* the evaluated side an alert was made from
IsSideOf(c, a, e) ==
    /\ a.pick = <<SideTeam(GameOf(c, a.game_id), e.side), FmtLine(e.line)>>
    /\ a.odds = e.odds
    /\ a.edge = e.ev

SameKey(r, s) ==
    r.game_id = s.game_id /\ r.market = s.market /\ r.pick = s.pick /\ r.odds = s.odds
HasKey(table, s) == \E r \in table : SameKey(r, s)

(***************************************************************************)
(* The signal store                                                        *)
(***************************************************************************)
\* the rows a sequence of save_signal calls has to add to a table: one per key
\* that the table does not hold yet
NewKeys(table, sigs) ==
    {<<s.game_id, s.market, s.pick, s.odds>> : s \in {x \in Range(sigs) : ~HasKey(table, x)}}

\* C1: whatever save_signal calls a cycle makes, the table afterwards holds at
\* most one row per (game_id, market, pick, odds); every row it held before is
\* still there unchanged, so a signal whose four key values are already stored
\* adds nothing; and every saved signal whose key was not stored, one that
\* differs from a stored row only in odds included, has its own row afterwards.
C1_OneRowPerKey ==
    [][/\ \A r1, r2 \in signals' : SameKey(r1, r2) => r1 = r2
       /\ signals \subseteq signals'
       /\ \A s \in Range(SavedSigs(cyc')) : HasKey(signals', s)
       /\ Cardinality(signals') =
             Cardinality(signals) + Cardinality(NewKeys(signals, SavedSigs(cyc')))]_vars

\* a cycle has just re-submitted a stored key with other values in the remaining
\* columns and the stored row is as it was, and the table holds two rows that
\* differ in odds only among their key columns
C1_Witness ==
    /\ \E s \in Range(SavedSigs(cyc)) : \E r \in signals : SameKey(r, s) /\ r # SigRow(s)
    /\ \E r1, r2 \in signals :
          /\ r1.game_id = r2.game_id /\ r1.market = r2.market /\ r1.pick = r2.pick
          /\ r1.odds # r2.odds

(***************************************************************************)
(* Selection, gating, ranking                                              *)
(***************************************************************************)
OnePerGame(alerts) ==
    \A i, j \in DOMAIN alerts : alerts[i].game_id = alerts[j].game_id => i = j

\* the alert is made from a side whose ev no other evaluated side of the game exceeds
FromBestSide(c, a) ==
    \E e \in Range(SideEvals(c, a)) :
        /\ IsSideOf(c, a, e)
        /\ \A f \in Range(SideEvals(c, a)) : RLe(f.ev, e.ev)

\* C2 as stated: in every cycle each game yields at most one alert, made from
\* the side of maximal EV among the game's evaluated sides.
C2_OneAlertPerGameAlways ==
    Completed(cyc) =>
        /\ OnePerGame(cyc.alerts)
        /\ \A a \in Range(cyc.alerts) : FromBestSide(cyc, a)

\* C2, amended: outside forced test mode each game yields at most one alert,
\* made from the side of maximal EV among the game's evaluated sides.
C2_OneAlertPerGame ==
    (Completed(cyc) /\ ~cyc.forced) =>
        /\ OnePerGame(cyc.alerts)
        /\ OnePerGame(SavedSigs(cyc))
        /\ \A a \in Range(cyc.alerts) \cup Range(SavedSigs(cyc)) : FromBestSide(cyc, a)

\* a cycle outside forced mode alerts a game both of whose sides clear the gate
C2_Witness ==
    /\ Completed(cyc) /\ ~cyc.forced
    /\ \E a \in Range(cyc.alerts) :
          /\ Len(SideEvals(cyc, a)) = 2
          /\ \A e \in Range(SideEvals(cyc, a)) : RLe(e.thr, e.ev) /\ RLe(ROne, e.stake)

\* C3: outside forced test mode every alert persisted or notified has
\* edge >= the dynamic threshold of its side and stake >= 1.0, and a matched
\* game whose selected side has edge below its threshold or stake below 1.0 has
\* no alert.
C3_GateHolds ==
    (Completed(cyc) /\ ~cyc.forced) =>
        /\ \A a \in Range(cyc.alerts) \cup Range(SavedSigs(cyc)) :
              \E e \in Range(SideEvals(cyc, a)) :
                  IsSideOf(cyc, a, e) /\ RLe(e.thr, a.edge) /\ RLe(ROne, a.stake)
        /\ \A g \in CycleMatched(cyc) :
              LET evals == Evals(g, CycleRef(cyc)[g.game_id].fav_ladder)
              IN  (evals # <<>> /\ (RLt(MaxByEv(evals).ev, MaxByEv(evals).thr)
                                    \/ RLt(MaxByEv(evals).stake, ROne)))
                  => \A a \in Range(cyc.alerts) \cup Range(SavedSigs(cyc)) :
                         a.game_id # g.game_id

\* a cycle that alerts some games while one matched game has the edge but a
\* stake under 1.0 and another has the stake but an edge under its threshold
C3_Witness ==
    /\ Completed(cyc) /\ ~cyc.forced /\ cyc.alerts # <<>>
    /\ \E g \in CycleMatched(cyc) :
          LET evals == Evals(g, CycleRef(cyc)[g.game_id].fav_ladder)
          IN  /\ evals # <<>>
              /\ RLe(MaxByEv(evals).thr, MaxByEv(evals).ev)
              /\ RLt(MaxByEv(evals).stake, ROne)
    /\ \E g \in CycleMatched(cyc) :
          LET evals == Evals(g, CycleRef(cyc)[g.game_id].fav_ladder)
          IN  /\ evals # <<>>
              /\ RLt(MaxByEv(evals).ev, MaxByEv(evals).thr)
              /\ RLe(ROne, MaxByEv(evals).stake)

\* C4: a cycle persists at most 5 rows and sends at most 5 text blocks; outside
\* forced mode the dispatched alerts are min(5, number qualifying) of the
\* qualifying alerts, in non-increasing edge order, the rows saved and the
\* blocks sent are theirs, and no dropped alert has a higher edge than a
\* dispatched one.
C4_TopFiveByEdge ==
    /\ Len(Saves(cyc)) <= 5
    /\ \A p \in Range(Pushes(cyc)) : Len(p.lines) <= 5
    /\ (Completed(cyc) /\ ~cyc.forced /\ CycleQualifying(cyc) # <<>>) =>
          LET q == CycleQualifying(cyc)
              d == cyc.alerts
          IN  /\ Len(d) = (IF Len(q) < 5 THEN Len(q) ELSE 5)
              /\ Range(d) \subseteq Range(q)
              /\ OnePerGame(d)
              /\ SavedSigs(cyc) = d
              /\ Len(Pushes(cyc)) = 1
              /\ Len(Pushes(cyc)[1].lines) = Len(d)
              /\ \A i \in DOMAIN d : Pushes(cyc)[1].lines[i].pick_line = <<d[i].pick, d[i].odds>>
              /\ \A i \in 1..(Len(d) - 1) : RLe(d[i + 1].edge, d[i].edge)
              /\ \A x \in Range(q) \ Range(d) : \A y \in Range(d) : RLe(x.edge, y.edge)

\* more than 5 games qualify, 5 alerts are dispatched, and the feed order of the
\* qualifying alerts is not their edge order
C4_Witness ==
    /\ Completed(cyc) /\ ~cyc.forced
    /\ Len(CycleQualifying(cyc)) > 5
    /\ Len(cyc.alerts) = 5
    /\ RLt(CycleQualifying(cyc)[1].edge, CycleQualifying(cyc)[2].edge)
    /\ Range(CycleQualifying(cyc)) \ Range(cyc.alerts) # {}

C7_QuotaNoticeOncePerMonth ==
    (cyc.ran /\ QuotaFailed(cyc)) =>
        Len(Pushes(cyc)) = (IF qhist.prev = qhist.now THEN 0 ELSE 1)

(***************************************************************************)
(* Cycles without alerts, games without reference                          *)
(***************************************************************************)
NO_OPPS_LINES == <<"No +EV opportunities found above threshold.">>
NO_MATCH_LINES == <<"No Pinnacle odds found for upcoming games; aborting.">>

LacksReference(c) == \E g \in Range(CycleGames(c)) : g.game_id \notin DOMAIN CycleRef(c)

C10_SkipAfterUnchangedPoll ==
    /\ sched.prev_same => (sched.last = "skip" /\ cyc = NoCycle)
    /\ sched.last = "skip" => sched.prev_same

\* what holds of it: with the optimized schedule installed the statement is
\* true, and the plain schedule never skips
SkipUnderOptimizedSchedule ==
    /\ env.USE_OPT_SCHEDULE => C10_SkipAfterUnchangedPoll
    /\ ~env.USE_OPT_SCHEDULE => sched.last # "skip"

(***************************************************************************)
(* The order of the steps of one tick                                      *)
(***************************************************************************)
\* the positions of the trace that hold an event of kind op
Positions(c, op) == {i \in DOMAIN c.trace : c.trace[i].op = op}

\* C11: a tick that runs run_once starts with the odds fetch; the reference
\* fetch is attempted only after a successful odds fetch, as the second step;
\* every save_signal call comes after both fetches have succeeded and before
\* the notification, which is the last step; the rows are saved in the order
\* of the blocks notified.
C11_StepsInOrder ==
    cyc.ran =>
        /\ Positions(cyc, "fetch_odds") = {1}
        /\ Positions(cyc, "fetch_ref") = (IF cyc.odds_res = "ok" THEN {2} ELSE {})
        /\ Positions(cyc, "save") # {} =>
              /\ cyc.trace[1].res = "ok" /\ cyc.trace[2].res = "ok"
              /\ Positions(cyc, "push") = {Len(cyc.trace)}
              /\ Positions(cyc, "save") = 3..(Len(cyc.trace) - 1)
              /\ \A i \in Positions(cyc, "save") :
                    AlertBlock(cyc.trace[i].sig) = cyc.trace[Len(cyc.trace)].lines[i - 2]
        /\ \A i \in Positions(cyc, "push") : i = Len(cyc.trace)

\* a cycle saved several rows and then sent their blocks in one notification
C11_Witness ==
    /\ Completed(cyc)
    /\ Cardinality(Positions(cyc, "save")) >= 2
    /\ cyc.trace[Len(cyc.trace)].op = "push"
    /\ Len(cyc.trace[Len(cyc.trace)].lines) = Cardinality(Positions(cyc, "save"))

(***************************************************************************)
(* Sides and games that cannot be evaluated                                *)
(***************************************************************************)
\* the game has no reference entry, or none of its sides can be evaluated:
\* quotes missing, the favourite ladder empty, or no mapping at the line
Unevaluable(g, ref) ==
    \/ g.game_id \notin DOMAIN ref
    \/ Evals(g, ref[g.game_id].fav_ladder) = <<>>

AlertsAbout(alerts, id) == SelectSeq(alerts, LAMBDA a : a.game_id = id)

\* the games of the cycle that can be evaluated, in feed order
EvaluableGames(c) == SelectSeq(CycleGames(c), LAMBDA g : ~Unevaluable(g, CycleRef(c)))

\* each alert comes from a side that has odds, a line and a mapping; a game
\* that cannot be evaluated has no alert; every other game has the alert it
\* has by itself, and the alerts are those of the cycle without the games
\* that cannot be evaluated
SkippedLeaveOthersAlone(c) ==
    /\ \A a \in Range(c.alerts) \cup Range(SavedSigs(c)) :
          /\ a.game_id \in DOMAIN CycleRef(c)
          /\ \E e \in Range(SideEvals(c, a)) :
                /\ IsSideOf(c, a, e)
                /\ SideOdds(GameOf(c, a.game_id), e.side) # None
                /\ SideLine(GameOf(c, a.game_id), e.side) # None
    /\ \A g \in Range(CycleGames(c)) :
          IF Unevaluable(g, CycleRef(c))
          THEN AlertsAbout(CycleQualifying(c), g.game_id) = <<>>
          ELSE AlertsAbout(CycleQualifying(c), g.game_id) = GameAlerts(g, CycleRef(c))
    /\ CycleQualifying(c) = PureEval(EvaluableGames(c), CycleRef(c)).genuine
    /\ ~c.forced => c.alerts = Dispatched(CycleQualifying(c))

\* the cycle went on to its end: no Error notice, and what qualified was dispatched
NotAborted(c) ==
    /\ \A p \in Range(Pushes(c)) : p.title # Title(" - Error")
    /\ CycleQualifying(c) # <<>> =>
          /\ Len(Pushes(c)) = 1
          /\ Len(Pushes(c)[1].lines) = Len(c.alerts)
          /\ c.alerts # <<>>

AsMissing(g, defect) ==
    IF defect = "point_text" THEN [g EXCEPT !.line_home = None]
    ELSE [g EXCEPT !.odds_home = None]

\* the games of a cycle on a malformed feed, the malformed value missing
FeedAsMissing(c) ==
    [CycleGames(c) EXCEPT ![c.feed[4]] = AsMissing(@, c.feed[5])]

\* C13 as stated: a cycle whose feed holds a game with a non-numeric price, a
\* price of 0 or a non-numeric point raises no exception in its evaluation and
\* dispatches the alerts of the same feed with the malformed value missing.
C13_MalformedTreatedAsMissing ==
    (Completed(cyc) /\ cyc.feed \in BadFeedKeys) =>
        /\ Positions(cyc, "raise") = {}
        /\ cyc.alerts = Dispatched(PureEval(FeedAsMissing(cyc), CycleRef(cyc)).genuine)

\* what holds of it: a non-numeric price is coerced to a missing one and the
\* cycle goes on as the statement says; so does a malformed game that has no
\* reference entry
C13_CoercedPriceIsMissing ==
    (Completed(cyc) /\ cyc.feed \in BadFeedKeys
        /\ (cyc.feed[5] = "price_text" \/ cyc.feed[4] \notin DOMAIN CycleRef(cyc))) =>
        /\ Positions(cyc, "raise") = {}
        /\ cyc.alerts = Dispatched(PureEval(FeedAsMissing(cyc), CycleRef(cyc)).genuine)

(***************************************************************************)
(* Delivery failures of the notifier                                       *)
(***************************************************************************)
\* the webhook POST of some push of the cycle raised or answered an error status
DeliveryFailed(c) == \E i \in Positions(c, "push") : ~c.trace[i].ok

\* C14 as stated: a delivery failure of the notifier does not propagate out of
\* run_once and does not stop the scheduler: after a cycle whose push failed
\* the process is where it is after a cycle whose push succeeded.
C14_DeliveryFailureContained ==
    DeliveryFailed(cyc) =>
        /\ ~cyc.raised
        /\ pc = (IF env.RUN_ONCE THEN "exit" ELSE "loop")

\* what holds of it: a failed delivery is not retried, it is the last step of
\* its cycle
C14_DeliveryNotRetried ==
    DeliveryFailed(cyc) =>
        /\ Cardinality(Positions(cyc, "push")) = 1
        /\ ~cyc.trace[Len(cyc.trace)].ok

(***************************************************************************)
(* Moneyline evaluation                                                    *)
(***************************************************************************)
\* the edge floor of moneyline alerts that the tests read from main
BASE_ML_EDGE == R(3, 100)

MlOdds(g, side) == IF side = "home" THEN g.ml_home ELSE g.ml_away
MlProb(entry, side) == IF side = "home" THEN Val(entry.ml)[1] ELSE Val(entry.ml)[2]

\* the moneyline of the side clears the floor with a stake of at least 1.0
MlQualifies(g, entry, side) ==
    /\ MlOdds(g, side) # None
    /\ entry.ml # None
    /\ RLe(BASE_ML_EDGE,
           expected_value_per_dollar(MlProb(entry, side), Val(MlOdds(g, side)), RZero))
    /\ RLe(ROne, StakeOf(kelly_fraction(MlProb(entry, side), Val(MlOdds(g, side)), RZero)))

\* C16 as stated: a matched game without a usable spread ladder whose moneyline
\* clears the moneyline floor on some side is alerted with market ML and a pick
\* that names the team followed by ML, unless five alerts of at least that
\* edge fill the cycle.
C16_MoneylineEvaluated ==
    (Completed(cyc) /\ ~cyc.forced) =>
        \A g \in CycleMatched(cyc) : \A side \in {"home", "away"} :
            (/\ Evals(g, CycleRef(cyc)[g.game_id].fav_ladder) = <<>>
             /\ MlQualifies(g, CycleRef(cyc)[g.game_id], side))
            => \/ \E a \in Range(cyc.alerts) \cap Range(SavedSigs(cyc)) :
                      /\ a.game_id = g.game_id
                      /\ a.market = "ML"
                      /\ \E sd \in {"home", "away"} :
                            /\ a.pick = <<SideTeam(g, sd), "ML">>
                            /\ a.odds = Val(MlOdds(g, sd))
               \/ Len(cyc.alerts) = MAX_ALERTS

\* what holds of it: every alert of a cycle carries the market of its game
\* record, which the adapter sets to BOTH, and is a pick on the spread
C16_OnlySpreadAlerts ==
    Completed(cyc) =>
        \A a \in Range(cyc.alerts) :
            /\ a.market = "BOTH"
            /\ \E sd \in {"home", "away"}, l \in (-MaxSpread - 11)..(MaxSpread + 11) :
                  a.pick = <<SideTeam(GameOf(cyc, a.game_id), sd), FmtLine(l)>>

(***************************************************************************)
(* The outcome distribution                                                *)
(***************************************************************************)
InUnit(p) == RLe(RZero, p) /\ RLe(p, ROne)

\* the call of map_hr_to_probs has returned a distribution
Mapped == calc.fn = "map_hr_to_probs" /\ calc.done /\ calc.out # None

\* C15: for every ladder with values in [0,1], monotone or not, every side,
\* line and max_gap, a distribution that map_hr_to_probs returns has
\* p_win + p_push + p_lose = 1 and each of the three in [0,1].
C15_DistributionIsProper ==
    Mapped =>
        /\ RAdd(RAdd(Val(calc.out).p_win, Val(calc.out).p_push), Val(calc.out).p_lose) = ROne
        /\ InUnit(Val(calc.out).p_win)
        /\ InUnit(Val(calc.out).p_push)
        /\ InUnit(Val(calc.out).p_lose)

\* a whole-number line mapped by interpolation on a ladder that is not
\* monotone: the farther half point is likelier than the nearer one
C15_Witness ==
    /\ Mapped
    /\ Val(calc.out).whole /\ Val(calc.out).interpolated
    /\ \E k1, k2 \in DOMAIN calc.ladder :
          k1 < k2 /\ RLt(calc.ladder[k2], calc.ladder[k1])
    /\ Val(calc.out).p_push = RZero
    /\ RLt(RZero, Val(calc.out).p_win) /\ RLt(RZero, Val(calc.out).p_lose)

(***************************************************************************)
(* The dynamic threshold                                                   *)
(***************************************************************************)
ThresholdDone == calc.fn = "threshold" /\ calc.done

\* the line, in half points, is within half a point of 3 or of 7
WithinKeyTolerance(line) == Abs(Abs(line) - 6) <= 1 \/ Abs(Abs(line) - 14) <= 1

FarLines == {l \in -MaxSpread..MaxSpread : ~WithinKeyTolerance(l)}

\* C17 as stated: the threshold is never below the configured floor, is
\* strictly above the threshold of an exact half-point lookup when the side is
\* whole-number or interpolated, and is strictly above the threshold of the
\* same kind of side away from the key numbers when its line is within the
\* tolerance of 3 or 7.
C17_ThresholdTiers ==
    ThresholdDone =>
        /\ RLe(calc.min_edge, calc.out)
        /\ (calc.whole \/ calc.interpolated) =>
              RLt(EdgeThresholdFor(calc.min_edge, calc.line, FALSE, FALSE), calc.out)
        /\ ((calc.whole \/ calc.interpolated) /\ WithinKeyTolerance(calc.line)) =>
              \A l \in FarLines :
                  RLt(EdgeThresholdFor(calc.min_edge, l, calc.whole, calc.interpolated),
                      calc.out)

\* what holds of it: the floor always; the first raise under the default
\* floor; the second raise under the default floor for interpolated sides
C17_TiersOfTheCode ==
    ThresholdDone =>
        /\ RLe(calc.min_edge, calc.out)
        /\ RLe(R(1, 100), calc.out)
        /\ (calc.min_edge = MIN_EDGE /\ (calc.whole \/ calc.interpolated)) =>
              RLt(EdgeThresholdFor(calc.min_edge, calc.line, FALSE, FALSE), calc.out)
        /\ (calc.min_edge = MIN_EDGE /\ calc.interpolated /\ WithinKeyTolerance(calc.line)) =>
              \A l \in FarLines :
                  RLt(EdgeThresholdFor(calc.min_edge, l, calc.whole, calc.interpolated),
                      calc.out)
        /\ (calc.whole /\ ~calc.interpolated) =>
              \A l \in -MaxSpread..MaxSpread :
                  calc.out = EdgeThresholdFor(calc.min_edge, l, TRUE, FALSE)

\* the failing call: a whole-number line at 3 with both half points quoted,
\* under the default floor, gets the threshold of a whole-number line at 6
C17_WholeAtKeyNotRaised ==
    /\ ThresholdDone
    /\ calc.min_edge = MIN_EDGE /\ calc.line = -6 /\ calc.whole /\ ~calc.interpolated
    /\ calc.out = EdgeThresholdFor(MIN_EDGE, -12, TRUE, FALSE)
    /\ calc.out = R(15, 1000)

(***************************************************************************)
(* The threshold values of the tests                                       *)
(***************************************************************************)
EvaluateDone == calc.fn = "evaluate" /\ calc.done

REq(a, b) == a.n * b.d = b.n * a.d

\* the entry computed by a finished evaluation
Evaluated == calc.out[1]

\* C18 as stated: under the default configuration the threshold is 0.03 without
\* flags, 0.035 for a whole-number line away from the key numbers and 0.04 for
\* an interpolated line at 3; a side without flags whose edge is 0.029 does not
\* pass the gate and one whose edge is 0.031 passes it.
C18_TestedThresholds ==
    /\ (ThresholdDone /\ calc.min_edge = MIN_EDGE) =>
          /\ (~calc.whole /\ ~calc.interpolated) => REq(calc.out, R(3, 100))
          /\ (calc.whole /\ ~calc.interpolated /\ ~WithinKeyTolerance(calc.line)) =>
                REq(calc.out, R(35, 1000))
          /\ (calc.interpolated /\ Abs(calc.line) = 6) => REq(calc.out, R(4, 100))
    /\ (EvaluateDone /\ ~calc.m.whole /\ ~calc.m.interpolated) =>
          /\ REq(Evaluated.ev, R(29, 1000)) => ~PassesThreshold(Evaluated)
          /\ (REq(Evaluated.ev, R(31, 1000)) /\ RLe(ROne, Evaluated.stake)) =>
                PassesThreshold(Evaluated)

\* what holds instead: the three levels of the code are 0.01, 0.015 and 0.02,
\* and the gate of a side without flags opens at 0.01
C18_ThresholdsOfTheCode ==
    /\ (ThresholdDone /\ calc.min_edge = MIN_EDGE) =>
          /\ (~calc.whole /\ ~calc.interpolated) => REq(calc.out, R(1, 100))
          /\ (calc.whole /\ ~calc.interpolated) => REq(calc.out, R(15, 1000))
          /\ (calc.interpolated /\ WithinKeyTolerance(calc.line)) => REq(calc.out, R(2, 100))
          /\ (calc.interpolated /\ ~WithinKeyTolerance(calc.line)) =>
                REq(calc.out, R(15, 1000))
    /\ (EvaluateDone /\ ~calc.m.whole /\ ~calc.m.interpolated) =>
          (PassesThreshold(Evaluated) <=>
              (RLe(R(1, 100), Evaluated.ev) /\ RLe(ROne, Evaluated.stake)))

\* the failing call: an edge of 0.029 at even odds passes the gate
C18_LowEdgeAccepted ==
    /\ EvaluateDone /\ ~calc.m.whole /\ ~calc.m.interpolated
    /\ calc.odds = 100 /\ REq(calc.m.p_win, R(5145, 10000))
    /\ REq(Evaluated.ev, R(29, 1000))
    /\ PassesThreshold(Evaluated)

(***************************************************************************)
(* The stake                                                               *)
(***************************************************************************)
\* bankroll * max_unit
MaxStake == RMul(RInt(BANKROLL), MAX_UNIT)

\* C19: the stake of an evaluated side lies between 0 and bankroll * max_unit,
\* equals the rounded smaller of bankroll * max_unit and bankroll *
\* kelly_weight * k when k is positive, and is 0 when k is zero or negative,
\* in which case the side does not pass the gate.
C19_StakeBounded ==
    EvaluateDone =>
        /\ Evaluated.k = kelly_fraction(calc.m.p_win, calc.odds, calc.m.p_push)
        /\ RLe(RZero, Evaluated.stake)
        /\ RLe(Evaluated.stake, MaxStake)
        /\ RLt(RZero, Evaluated.k) =>
              REq(Evaluated.stake,
                  Round2(RMin(MaxStake, RMul(RInt(BANKROLL), RMul(KELLY_FRAC, Evaluated.k)))))
        /\ RLe(Evaluated.k, RZero) =>
              /\ REq(Evaluated.stake, RZero)
              /\ ~PassesThreshold(Evaluated)
              /\ AlertIfPasses(Game(1, 1), Evaluated) = <<>>

C19_Witness ==
    /\ EvaluateDone
    /\ RLt(Evaluated.k, RZero)
    /\ REq(Evaluated.stake, RZero)
    /\ RLe(Evaluated.thr, Evaluated.ev) = FALSE

\* a second case of it: a Kelly fraction large enough for the cap to bind
C19_CapBinds ==
    /\ EvaluateDone
    /\ RLt(MaxStake, RMul(RInt(BANKROLL), RMul(KELLY_FRAC, Evaluated.k)))
    /\ REq(Evaluated.stake, MaxStake)
    /\ PassesThreshold(Evaluated)

(***************************************************************************)
(* End to end                                                              *)
(***************************************************************************)
\* the cycle read one game quoted (-105, -115) on the lines (-2.5, +2.5)
\* and a reference whose ladder for it is {-2.5: 0.53}
OneGameCycle(c) ==
    /\ Completed(c) /\ ~c.raised /\ ~c.forced
    /\ Len(CycleGames(c)) = 1
    /\ CycleGames(c)[1].line_home = Some(-5) /\ CycleGames(c)[1].line_away = Some(5)
    /\ CycleGames(c)[1].odds_home = Some(-105) /\ CycleGames(c)[1].odds_away = Some(-115)
    /\ DOMAIN CycleRef(c) = {CycleGames(c)[1].game_id}
    /\ CycleRef(c)[CycleGames(c)[1].game_id].fav_ladder = (-5 :> R(53, 100))

\* the alert of the home side of game g at -2.5 and -105
HomePick(g, a) ==
    /\ a.game_id = g.game_id
    /\ a.pick = <<g.home, FmtLine(-5)>>
    /\ a.odds = -105
    /\ RLt(RZero, a.edge)
    /\ a.edge = expected_value_per_dollar(R(53, 100), -105, RZero)

\* C20: in such a cycle run_once makes exactly one alert, the home side at -2.5
\* with a positive edge, saves it in exactly one save_signal call, after which
\* the table holds exactly one row of that key, and pushes once, one block.
C20_EndToEnd ==
    OneGameCycle(cyc) =>
        /\ Len(cyc.alerts) = 1
        /\ HomePick(CycleGames(cyc)[1], cyc.alerts[1])
        /\ SavedSigs(cyc) = cyc.alerts
        /\ Cardinality({r \in signals : SigKey(r) = SigKey(cyc.alerts[1])}) = 1
        /\ Cardinality({r \in signals : r.game_id = CycleGames(cyc)[1].game_id
                                        /\ r.pick[1] = CycleGames(cyc)[1].away}) = 0
        /\ Len(Pushes(cyc)) = 1
        /\ Pushes(cyc)[1].lines = <<AlertBlock(cyc.alerts[1])>>

C20_Witness ==
    /\ OneGameCycle(cyc)
    /\ Len(Saves(cyc)) = 1
    /\ HomePick(CycleGames(cyc)[1], Saves(cyc)[1].sig)
    /\ Pushes(cyc)[1].ok
    /\ pc # "crashed"

(***************************************************************************)
(* The ladder lookup                                                       *)
(***************************************************************************)
LookupDone == calc.fn = "p_fav_half" /\ calc.done

KeysBelow(ladder, target) == {x \in DOMAIN ladder : x < target}
KeysAbove(ladder, target) == {x \in DOMAIN ladder : x > target}

\* the nearest key on each side is at distance at most gap from the target
NeighboursWithin(ladder, target, gap) ==
    /\ \E x \in KeysBelow(ladder, target) :
          /\ \A y \in KeysBelow(ladder, target) : y <= x
          /\ target - x <= gap
    /\ \E x \in KeysAbove(ladder, target) :
          /\ \A y \in KeysAbove(ladder, target) : x <= y
          /\ x - target <= gap

\* C21: for a target that is not a ladder key, p_fav_half returns a value
\* exactly when the ladder has a key below the target and a key above it and,
\* if max_gap is set, the nearest key on each side is within max_gap of the
\* target; otherwise it returns nothing.
C21_NoExtrapolation ==
    (LookupDone /\ calc.target \notin DOMAIN calc.ladder) =>
        (calc.out # None <=>
            /\ KeysBelow(calc.ladder, calc.target) # {}
            /\ KeysAbove(calc.ladder, calc.target) # {}
            /\ calc.max_gap # None =>
                  NeighboursWithin(calc.ladder, calc.target, Val(calc.max_gap)))

\* the lookup of the spec's example in small: two keys two points apart, the
\* target midway, max_gap half a point: unavailable
C21_Witness ==
    /\ LookupDone
    /\ DOMAIN calc.ladder = {-5, -1} /\ calc.target = -3 /\ calc.max_gap = Some(1)
    /\ calc.out = None

\* and a lookup between two keys that max_gap lets through
C21_WithinGap ==
    /\ LookupDone
    /\ DOMAIN calc.ladder = {-5, -1} /\ calc.target = -3 /\ calc.max_gap = Some(MAX_INTERP_GAP)
    /\ calc.out # None

(***************************************************************************)
(* Exact lookups                                                           *)
(***************************************************************************)
MapDone == calc.fn = "map_hr_to_probs" /\ calc.done

\* the favourite lines that map_hr_to_probs looks up for the line s_hr: the line
\* itself on the favourite's side for a half point, the two adjacent half
\* points for a whole number
LookupTargets(s_hr) ==
    IF s_hr % 2 # 0 THEN {-Abs(s_hr)} ELSE {-(Abs(s_hr) - 1), -(Abs(s_hr) + 1)}

\* C22: a lookup of a ladder key returns the ladder value with interpolated
\* false whatever max_gap is, and map_hr_to_probs reports interpolated only if
\* one of the lines it looked up is not a ladder key.
C22_ExactNeverInterpolated ==
    /\ (LookupDone /\ calc.target \in DOMAIN calc.ladder) =>
          calc.out = Some([p |-> calc.ladder[calc.target], interp |-> FALSE])
    /\ (MapDone /\ calc.out # None) =>
          (Val(calc.out).interpolated =>
              \E t \in LookupTargets(calc.s_hr) : t \notin DOMAIN calc.ladder)

\* a key looked up under the tightest max_gap, its neighbours farther away
C22_Witness ==
    /\ LookupDone
    /\ DOMAIN calc.ladder = {-5, -3, -1} /\ calc.target = -3 /\ calc.max_gap = Some(1)
    /\ calc.out # None /\ ~Val(calc.out).interp

\* a whole-number line mapped from two keys, and one mapped with an
\* interpolated half point
C22_WholeFromKeys ==
    /\ MapDone /\ calc.s_hr = -4 /\ DOMAIN calc.ladder = {-5, -3}
    /\ calc.out # None /\ ~Val(calc.out).interpolated

C22_WholeInterpolated ==
    /\ MapDone /\ calc.s_hr = -2 /\ DOMAIN calc.ladder = {-5, -1}
    /\ calc.out # None /\ Val(calc.out).interpolated

(***************************************************************************)
(* Linear interpolation                                                    *)
(***************************************************************************)
\* lo and hi are the nearest keys around the target
Nearest(ladder, target, lo, hi) ==
    /\ lo \in KeysBelow(ladder, target) /\ \A y \in KeysBelow(ladder, target) : y <= lo
    /\ hi \in KeysAbove(ladder, target) /\ \A y \in KeysAbove(ladder, target) : hi <= y

\* p_lo + (target - lo)/(hi - lo) * (p_hi - p_lo)
Linear(ladder, target, lo, hi) ==
    RAdd(ladder[lo], RMul(R(target - lo, hi - lo), RSub(ladder[hi], ladder[lo])))

Between(p, a, b) == RLe(RMin(a, b), p) /\ RLe(p, RMax(a, b))

\* C23: a lookup that returns a value for a target that is not a key returns
\* the linear interpolation between the nearest key below and the nearest key
\* above, flagged interpolated, and the value lies between those of the two
\* neighbours; the ladder {-7.5: 0.52, -6.5: 0.60} gives 0.56 at -7.0.
C23_LinearBetweenNearest ==
    /\ (LookupDone /\ calc.target \notin DOMAIN calc.ladder /\ calc.out # None) =>
          \E lo, hi \in DOMAIN calc.ladder :
              /\ Nearest(calc.ladder, calc.target, lo, hi)
              /\ REq(Val(calc.out).p, Linear(calc.ladder, calc.target, lo, hi))
              /\ Val(calc.out).interp
              /\ Between(Val(calc.out).p, calc.ladder[lo], calc.ladder[hi])
    /\ (LookupDone /\ calc.ladder = TestLadder /\ calc.target = -14) =>
          calc.out = Some([p |-> R(56, 100), interp |-> TRUE])

\* three keys, the target between the upper two, the outer values apart
C23_Witness ==
    /\ LookupDone
    /\ DOMAIN calc.ladder = {-5, -3, -1} /\ calc.target = -2
    /\ calc.ladder[-5] = ROne /\ calc.ladder[-3] = R(3, 10) /\ calc.ladder[-1] = R(1, 2)
    /\ calc.out = Some([p |-> R(4, 10), interp |-> TRUE])

\* the lookup of the tests
C23_TestLookup ==
    /\ LookupDone /\ calc.ladder = TestLadder /\ calc.target = -14
    /\ REq(Val(calc.out).p, R(56, 100))

(***************************************************************************)
(* The pairing at whole numbers                                            *)
(***************************************************************************)
\* the favourite-cover probability at the favourite line t for the call
CoverAt(t) == Val(p_fav_half(t, calc.ladder, calc.max_gap)).p

\* the whole-number mapping m of the line s_hr with push mass push
WholePairing(s_hr, m, p_lo, p_hi, push) ==
    /\ m.whole
    /\ s_hr < 0 => (REq(m.p_win, p_hi) /\ REq(m.p_push, push))
    /\ s_hr > 0 => (REq(m.p_win, RSub(ROne, p_lo)) /\ REq(m.p_push, push))

\* the half-point mapping m of the line s_hr, p_fav being the cover
\* probability at the line mirrored to the favourite's side
HalfPairing(s_hr, m, p_fav) ==
    /\ ~m.whole
    /\ m.p_push = RZero
    /\ s_hr < 0 => REq(m.p_win, p_fav)
    /\ s_hr > 0 => REq(m.p_win, RSub(ROne, p_fav))

\* C24 as stated: at a whole number the push mass is p_lo - p_hi.
C24_PairingAsStated ==
    (MapDone /\ calc.out # None) =>
        IF calc.s_hr % 2 = 0
        THEN WholePairing(calc.s_hr, Val(calc.out), CoverAt(-(Abs(calc.s_hr) - 1)),
                          CoverAt(-(Abs(calc.s_hr) + 1)),
                          RSub(CoverAt(-(Abs(calc.s_hr) - 1)), CoverAt(-(Abs(calc.s_hr) + 1))))
        ELSE HalfPairing(calc.s_hr, Val(calc.out), CoverAt(-Abs(calc.s_hr)))

\* C24 amended: at a whole number the favourite wins with p_hi, the underdog
\* with 1 - p_lo, both with push mass max(0, p_lo - p_hi) and whole set; at a
\* half point the push mass is 0, whole is not set, the favourite wins with the
\* cover probability at its line and the underdog with 1 minus the one at the
\* mirrored line; the ladder of the tests gives 0.52 / 0.08 at -7 and
\* 0.40 / 0.08 at +7.
C24_Pairing ==
    /\ (MapDone /\ calc.out # None) =>
          IF calc.s_hr % 2 = 0
          THEN WholePairing(calc.s_hr, Val(calc.out), CoverAt(-(Abs(calc.s_hr) - 1)),
                            CoverAt(-(Abs(calc.s_hr) + 1)),
                            RMax(RZero, RSub(CoverAt(-(Abs(calc.s_hr) - 1)),
                                             CoverAt(-(Abs(calc.s_hr) + 1)))))
          ELSE HalfPairing(calc.s_hr, Val(calc.out), CoverAt(-Abs(calc.s_hr)))
    /\ (MapDone /\ calc.ladder = TestLadder) =>
          /\ calc.out # None
          /\ REq(Val(calc.out).p_push, R(8, 100))
          /\ REq(Val(calc.out).p_win, IF calc.s_hr < 0 THEN R(52, 100) ELSE R(40, 100))

\* a favourite at a whole number on a ladder that is not monotone there:
\* p_lo < p_hi and the push mass is 0
C24_Witness ==
    /\ MapDone /\ calc.out # None
    /\ calc.s_hr = -4 /\ DOMAIN calc.ladder = {-5, -3}
    /\ calc.ladder[-3] = R(3, 10) /\ calc.ladder[-5] = R(1, 2)
    /\ Val(calc.out).whole
    /\ Val(calc.out).p_win = R(1, 2) /\ Val(calc.out).p_push = RZero

\* the whole-number mappings of the tests
C24_TestMapping ==
    /\ MapDone /\ calc.ladder = TestLadder /\ calc.s_hr = 14
    /\ REq(Val(calc.out).p_win, R(40, 100)) /\ REq(Val(calc.out).p_push, R(8, 100))

(***************************************************************************)
(* The two sides of a game at mirrored lines                               *)
(***************************************************************************)
\* the mapping of the other side of the call's game, at the mirrored line
Mirror ==
    map_hr_to_probs(IF calc.side = "home" THEN "away" ELSE "home", -calc.s_hr, calc.ladder,
                    calc.max_gap)

\* m and o share the push mass, and the two wins and the push make up 1
MirrorConsistent(m, o) ==
    /\ REq(m.p_push, o.p_push)
    /\ REq(RAdd(RAdd(m.p_win, o.p_win), m.p_push), ROne)

\* C25 as stated: whenever a side is mapped at a line other than 0, the other
\* side is mapped at the mirrored line, both report the same push mass, and
\* the favourite's p_win, the underdog's p_win and the push mass sum to 1,
\* for every ladder.
C25_MirroredSidesConsistent ==
    (MapDone /\ calc.out # None /\ calc.s_hr # 0) =>
        /\ Mirror # None
        /\ MirrorConsistent(Val(calc.out), Val(Mirror))

\* what holds of it: the mirrored side is mapped and reports the same push
\* mass; the sum is 1 at half points and wherever p_lo >= p_hi, and exceeds 1
\* by p_hi - p_lo where the ladder rises away from zero
C25_ConsistentWhereMonotone ==
    (MapDone /\ calc.out # None /\ calc.s_hr # 0) =>
        /\ Mirror # None
        /\ REq(Val(calc.out).p_push, Val(Mirror).p_push)
        /\ (calc.s_hr % 2 # 0
            \/ RLe(CoverAt(-(Abs(calc.s_hr) + 1)), CoverAt(-(Abs(calc.s_hr) - 1)))) =>
              MirrorConsistent(Val(calc.out), Val(Mirror))
        /\ (calc.s_hr % 2 = 0
            /\ RLt(CoverAt(-(Abs(calc.s_hr) - 1)), CoverAt(-(Abs(calc.s_hr) + 1)))) =>
              REq(RAdd(RAdd(Val(calc.out).p_win, Val(Mirror).p_win), Val(calc.out).p_push),
                  RAdd(ROne, RSub(CoverAt(-(Abs(calc.s_hr) + 1)),
                                  CoverAt(-(Abs(calc.s_hr) - 1)))))

\* the failing call: the ladder {-2.5: 0.5, -1.5: 0.3} at -2.0 and +2.0
C25_SidesSumAboveOne ==
    /\ MapDone /\ calc.out # None
    /\ calc.s_hr = -4 /\ DOMAIN calc.ladder = {-5, -3}
    /\ calc.ladder[-3] = R(3, 10) /\ calc.ladder[-5] = R(1, 2)
    /\ Val(calc.out).p_win = R(1, 2) /\ Val(calc.out).p_push = RZero
    /\ Val(Mirror).p_win = R(7, 10) /\ Val(Mirror).p_push = RZero

(***************************************************************************)
(* Banked ticks                                                            *)
(***************************************************************************)
\* C26: a skipped tick follows a tick that was not skipped, finds the skip
\* flag set and clears it, runs no cycle and leaves the last signature and the
\* store alone; every skipped tick is followed by a tick that runs run_once;
\* and run_once is executed again and again.
C26_SkipsNeverRepeat ==
    /\ [][sched'.last = "skip" =>
            /\ sched.last # "skip"
            /\ SKIP_NEXT /\ ~SKIP_NEXT'
            /\ ~cyc'.ran /\ cyc'.trace = <<>>
            /\ LAST_SIG' = LAST_SIG /\ signals' = signals]_vars
    /\ (sched.last = "skip") ~> (sched.last = "poll" /\ cyc.ran)
    /\ []<>(cyc.ran)

\* a tick skipped after a poll that saw no movement
C26_Witness ==
    /\ pc = "loop"
    /\ sched.last = "skip" /\ sched.prev_same
    /\ ~SKIP_NEXT
    /\ ~cyc.ran

(***************************************************************************)
(* The two globals of the change detection                                 *)
(***************************************************************************)
\* C27: a step that runs run_once leaves _LAST_SIG and _SKIP_NEXT as they were
\* when the odds fetch fails; when the odds fetch succeeds it sets _LAST_SIG
\* to the signature of the fetched games, whatever happens afterwards, and
\* sets _SKIP_NEXT if that signature is the one recorded before; it never
\* turns a set _SKIP_NEXT off.
C27_GlobalsOfRunOnce ==
    [][sched'.last # "skip" =>
          /\ cyc'.ran
          /\ cyc'.odds_res # "ok" => (LAST_SIG' = LAST_SIG /\ SKIP_NEXT' = SKIP_NEXT)
          /\ cyc'.odds_res = "ok" =>
                /\ LAST_SIG' = Some(hr_signature(CycleGames(cyc')))
                /\ SKIP_NEXT' = (SKIP_NEXT \/ LAST_SIG = LAST_SIG')
          /\ SKIP_NEXT => SKIP_NEXT']_vars

\* a poll whose reference fetch failed after the odds fetch had returned the
\* quotes of the poll before: the signature is recorded and the next tick banked
C27_Witness ==
    /\ cyc.ran /\ cyc.odds_res = "ok" /\ cyc.ref_res = "error"
    /\ sched.last = "poll" /\ sched.same
    /\ LAST_SIG = Some(hr_signature(CycleGames(cyc)))
    /\ SKIP_NEXT

\* a poll without a matched game after a change of the quotes
C27_NoMatchRecorded ==
    /\ Completed(cyc) /\ CycleMatched(cyc) = {} /\ CycleGames(cyc) # <<>>
    /\ sched.last = "poll" /\ ~sched.same
    /\ LAST_SIG = Some(hr_signature(CycleGames(cyc)))

(***************************************************************************)
(* Forced test alerts                                                      *)
(***************************************************************************)
\* the titles of the notifications of the cycle
PushTitles(c) == {Pushes(c)[i].title : i \in DOMAIN Pushes(c)}

\* forced mode is entered only without a genuine alert and with
\* TEST_FORCE_OPPS on, and a forced cycle calls save_signal for nothing
ForcedOnlyWithoutGenuine(c) ==
    /\ c.forced =>
          /\ Completed(c)
          /\ CycleQualifying(c) = <<>>
          /\ env.TEST_FORCE_OPPS
          /\ Saves(c) = <<>>
    /\ (Completed(c) /\ CycleQualifying(c) # <<>>) => ~c.forced

\* what a forced cycle sends
ForcedNotification(c) ==
    /\ (c.forced /\ c.alerts # <<>>) =>
          /\ Len(Pushes(c)) = 1
          /\ Pushes(c)[1].title = Title(" - Test")
          /\ Pushes(c)[1].lines = Blocks(c.alerts)
    /\ (c.forced /\ c.alerts = <<>>) =>
          PushTitles(c) = (IF env.TEST_NOTIFY THEN {Title(" - Test")}
                           ELSE IF env.RUN_ONCE THEN {Title("")}
                           ELSE {})

\* C28 as stated: every notification of a forced cycle carries the Test
\* suffix.
C28_ForcedNeverPersisted ==
    /\ [](ForcedOnlyWithoutGenuine(cyc)
          /\ (cyc.forced => PushTitles(cyc) \subseteq {Title(" - Test")}))
    /\ [][cyc'.forced => signals' = signals]_vars

\* C28 amended: the notification of forced alerts carries the Test suffix; a
\* forced cycle without any candidate sends what a cycle without alerts
\* sends: the notice with the Test suffix under TEST_NOTIFY, the notice with
\* the plain title under RUN_ONCE, and nothing otherwise.
C28_ForcedAlertsNotPersisted ==
    /\ [](ForcedOnlyWithoutGenuine(cyc) /\ ForcedNotification(cyc))
    /\ [][cyc'.forced => signals' = signals]_vars

\* forced alerts were notified after the store had taken rows from an earlier,
\* genuine cycle
C28_Witness ==
    /\ cyc.forced /\ cyc.alerts # <<>>
    /\ Saves(cyc) = <<>>
    /\ signals # {}
    /\ PushTitles(cyc) = {Title(" - Test")}

\* the one-shot test run on a slate without any candidate
C28_ForcedPlainNotice ==
    /\ cyc.forced /\ cyc.alerts = <<>>
    /\ env.RUN_ONCE /\ env.TEST_FORCE_OPPS
    /\ PushTitles(cyc) = {Title("")}

(***************************************************************************)
(* Notification and store                                                  *)
(***************************************************************************)
\* the rows of the table with the key of an alert
RowsOf(table, a) == {r \in table : SameKey(r, a)}

\* C29 as stated: a cycle notifies every alert that qualifies in it and whose
\* key the store already holds, and the store keeps a single row for it.
C29_StoredNotifiedAgain ==
    [][(sched'.last # "skip" /\ Completed(cyc')) =>
          \A a \in Range(CycleQualifying(cyc')) :
             HasKey(signals, a) =>
                /\ Len(Pushes(cyc')) = 1
                /\ AlertBlock(a) \in Range(Pushes(cyc')[1].lines)
                /\ Cardinality(RowsOf(signals', a)) = 1]_vars

\* C29 amended to the dispatched alerts (the five of highest edge):
\* a step that runs a cycle with genuine alerts sends one notification
\* with the block of every dispatched alert, as computed from the fetched
\* quotes and reference alone, whether or not the store already held a row
\* for the alert; afterwards the store holds exactly one row for each
\* dispatched alert, and a row it held before is the row it still holds.
C29_NotifiedWhateverStored ==
    [][(sched'.last # "skip" /\ Completed(cyc') /\ CycleQualifying(cyc') # <<>>) =>
          /\ Len(Pushes(cyc')) = 1
          /\ Pushes(cyc')[1].lines = Blocks(Dispatched(CycleQualifying(cyc')))
          /\ cyc'.alerts = Dispatched(CycleQualifying(cyc'))
          /\ \A a \in Range(cyc'.alerts) :
                /\ Cardinality(RowsOf(signals', a)) = 1
                /\ HasKey(signals, a) => RowsOf(signals', a) = RowsOf(signals, a)]_vars

\* a poll notified an alert whose row an earlier cycle had stored: the quotes
\* are the same, the reference has moved, so the stored edge is the old one
C29_Witness ==
    /\ sched.last = "poll"
    /\ Completed(cyc) /\ ~cyc.forced
    /\ Len(Pushes(cyc)) = 1
    /\ \E i \in DOMAIN cyc.alerts :
          /\ Pushes(cyc)[1].lines[i] = AlertBlock(cyc.alerts[i])
          /\ \E r \in signals : SameKey(r, cyc.alerts[i]) /\ r.edge # cyc.alerts[i].edge
          /\ Cardinality(RowsOf(signals, cyc.alerts[i])) = 1

\* an alert the store holds qualifies again and is not among the dispatched
C29_StoredButCut ==
    /\ Completed(cyc) /\ ~cyc.forced
    /\ Len(cyc.alerts) = MAX_ALERTS
    /\ \E a \in Range(CycleQualifying(cyc)) :
          /\ \A b \in Range(cyc.alerts) : ~SameKey(a, b)
          /\ HasKey(signals, a)
          /\ AlertBlock(a) \notin Range(Pushes(cyc)[1].lines)

(***************************************************************************)
(* Kelly fraction and expected value                                       *)
(***************************************************************************)
EvDone == calc.fn = "ev" /\ calc.done

\* C30: for nonzero odds and probabilities in [0,1] the Kelly fraction times
\* the payout multiple is the expected value per dollar, so the two have the
\* same sign and both are zero exactly when p_win is the break-even
\* probability; and an evaluated side that passes the gate of run_once has a
\* strictly positive edge and Kelly fraction and a stake between 1.0 and
\* bankroll * max_unit.
C30_KellyTimesPayoutIsEV ==
    /\ EvDone =>
          /\ RLt(RZero, calc.out.b)
          /\ REq(RMul(calc.out.k, calc.out.b), calc.out.ev)
          /\ RLt(RZero, calc.out.k) <=> RLt(RZero, calc.out.ev)
          /\ REq(calc.out.k, RZero) <=> REq(calc.p_win, calc.out.p_be)
          /\ REq(calc.out.ev, RZero) <=> REq(calc.p_win, calc.out.p_be)
    /\ EvaluateDone =>
          /\ REq(RMul(Evaluated.k, payout_multiple(calc.odds)), Evaluated.ev)
          /\ PassesThreshold(Evaluated) =>
                /\ RLt(RZero, Evaluated.ev)
                /\ RLt(RZero, Evaluated.k)
                /\ RLe(ROne, Evaluated.stake)
                /\ RLe(Evaluated.stake, MaxStake)

\* the case of the tests of ev.py: +200 at p_win 0.5 has Kelly fraction 0.25
\* and expected value 0.5
C30_Witness ==
    /\ EvDone
    /\ calc.odds = 200 /\ REq(calc.p_win, R(1, 2)) /\ REq(calc.p_push, RZero)
    /\ REq(calc.out.k, R(1, 4))
    /\ REq(calc.out.b, R(2, 1))
    /\ REq(calc.out.ev, R(1, 2))

\* break-even with a push: even money, p_push 0.1, p_win 0.45
C30_BreakEvenWithPush ==
    /\ EvDone
    /\ calc.odds = 100 /\ REq(calc.p_push, R(1, 10)) /\ REq(calc.p_win, R(45, 100))
    /\ REq(calc.out.p_be, calc.p_win)
    /\ REq(calc.out.k, RZero) /\ REq(calc.out.ev, RZero)

\* a side that passes the gate with a stake below the cap
C30_PassingSide ==
    /\ EvaluateDone /\ PassesThreshold(Evaluated)
    /\ RLt(ROne, Evaluated.stake)
    /\ RLt(Evaluated.stake, MaxStake)

\* the alerts of a cycle outside forced test mode have a strictly positive
\* edge and a stake between 1.0 and bankroll * max_unit
C30_AlertsOfCycle ==
    (Completed(cyc) /\ ~cyc.forced) =>
        \A a \in Range(cyc.alerts) \cup Range(SavedSigs(cyc)) :
            /\ RLt(RZero, a.edge)
            /\ RLe(ROne, a.stake)
            /\ RLe(a.stake, MaxStake)
            /\ REq(RMul(a.kelly, payout_multiple(a.odds)), a.edge)

=============================================================================
